---- MODULE Spec2Model ----
(***************************************************************************)
(* Ziegler-Natta rate engine (zieglerModel.ts, calculateReactionRates) and *)
(* the simulator page that calls it (App.svelte).                          *)
(*                                                                         *)
(* Numbers.  A JavaScript number is modelled as a record                   *)
(*     [k |-> "fin", n |-> numerator, d |-> denominator]   (d > 0, reduced)*)
(* or one of the three IEEE-754 specials NaN, +Infinity, -Infinity.        *)
(* Finite arithmetic (+ - * /) is exact rational arithmetic; the specials  *)
(* follow IEEE-754 (x/0, 0*Inf, Inf-Inf, ...).  Signed zero is not         *)
(* modelled: -0 and +0 are the one value Zero, and x/0 takes the sign of x.*)
(* Math.exp keeps its IEEE range (0 below the underflow threshold, +Inf    *)
(* above the overflow threshold); inside the range its value is reduced to *)
(* a coarse grid so that it fits TLC's 32-bit integers (see DExp).         *)
(*                                                                         *)
(* Magnitudes.  Concentrations and volumes are small whole numbers of a    *)
(* model unit, and the guard 1E-25 is 1/EpsDen of that unit: it stays      *)
(* positive and smaller than every non-zero concentration.  Temperatures   *)
(* are in kelvin as in the code (353.15 = 7063/20, 363.15 = 7263/20).      *)
(***************************************************************************)
EXTENDS Integers, Sequences, FiniteSets, TLC

\* ------------------------------------------------------------------------
\* Bounds of the model
\* ------------------------------------------------------------------------

\* The guard literal 1E-25 is modelled as 1/EpsDen of the concentration unit.
EpsDen == 10

\* Width of one step of the grid Math.exp is reduced to.
ExpStep == 4

\* Largest concentration value (in concentration units) the inputs take.
MaxConc == 2

\* Largest number of calculateReactionRates calls in one page session.
MaxCalls == 3

\* Largest number of slider moves in one page session.
MaxMoves == 2

\* ------------------------------------------------------------------------
\* JavaScript numbers
\* ------------------------------------------------------------------------

RECURSIVE GCD(_, _)
GCD(a, b) == IF b = 0 THEN a ELSE GCD(b, a % b)

Abs(i) == IF i < 0 THEN -i ELSE i

NaN  == [k |-> "nan",  n |-> 0, d |-> 1]
PInf == [k |-> "pinf", n |-> 0, d |-> 1]
NInf == [k |-> "ninf", n |-> 0, d |-> 1]

\* The finite number n/d (d # 0), reduced.
Rat(n, d) ==
    LET g == GCD(Abs(n), Abs(d))
        s == IF d < 0 THEN -1 ELSE 1
    IN  [k |-> "fin", n |-> (s * n) \div g, d |-> (s * d) \div g]

Num(i) == [k |-> "fin", n |-> i, d |-> 1]
Zero == Num(0)
One  == Num(1)

IsNaN(x)    == x.k = "nan"
IsFinite(x) == x.k = "fin"
IsZero(x)   == x.k = "fin" /\ x.n = 0

\* -1, 0, 1 for negative, zero, positive (the infinities included); NaN has no sign.
Sign(x) ==
    CASE x.k = "pinf" -> 1
      [] x.k = "ninf" -> -1
      [] x.k = "fin"  -> (IF x.n > 0 THEN 1 ELSE IF x.n < 0 THEN -1 ELSE 0)
      [] OTHER        -> 0

Signed(s) == IF s > 0 THEN PInf ELSE NInf

\* unary minus
DNeg(x) ==
    CASE x.k = "fin"  -> [x EXCEPT !.n = -x.n]
      [] x.k = "pinf" -> NInf
      [] x.k = "ninf" -> PInf
      [] OTHER        -> NaN

\* x + y
DAdd(x, y) ==
    IF x.k = "nan" \/ y.k = "nan" THEN NaN
    ELSE IF x.k = "fin" /\ y.k = "fin" THEN
        IF x.n = 0 THEN y
        ELSE IF y.n = 0 THEN x
        ELSE LET g == GCD(x.d, y.d)
             IN  Rat(x.n * (y.d \div g) + y.n * (x.d \div g), (x.d \div g) * y.d)
    ELSE IF x.k = "fin" THEN y
    ELSE IF y.k = "fin" THEN x
    ELSE IF x.k = y.k THEN x
    ELSE NaN

\* x - y
DSub(x, y) == DAdd(x, DNeg(y))

\* x * y
DMul(x, y) ==
    IF x.k = "nan" \/ y.k = "nan" THEN NaN
    ELSE IF x.k = "fin" /\ y.k = "fin" THEN
        IF x.n = 0 \/ y.n = 0 THEN Zero
        ELSE LET g1 == GCD(Abs(x.n), y.d)
                 g2 == GCD(Abs(y.n), x.d)
             IN  [k |-> "fin",
                  n |-> (x.n \div g1) * (y.n \div g2),
                  d |-> (x.d \div g2) * (y.d \div g1)]
    ELSE IF Sign(x) = 0 \/ Sign(y) = 0 THEN NaN
    ELSE Signed(Sign(x) * Sign(y))

\* x / y
DDiv(x, y) ==
    IF x.k = "nan" \/ y.k = "nan" THEN NaN
    ELSE IF y.k = "fin" THEN
        IF y.n = 0
        THEN (IF Sign(x) = 0 THEN NaN ELSE Signed(Sign(x)))
        ELSE IF x.k = "fin"
             THEN DMul(x, Rat(y.d, y.n))
             ELSE Signed(Sign(x) * Sign(y))
    ELSE IF x.k = "fin" THEN Zero
    ELSE NaN

\* x < y, x <= y (false when either is NaN, as in JavaScript)
DLt(x, y) ==
    /\ x.k # "nan" /\ y.k # "nan"
    /\ IF x.k = "fin" /\ y.k = "fin"
       THEN Sign(DSub(x, y)) < 0
       ELSE (x.k = "ninf" /\ y.k # "ninf") \/ (y.k = "pinf" /\ x.k # "pinf")

DLe(x, y) == x.k # "nan" /\ y.k # "nan" /\ (x = y \/ DLt(x, y))

\* ------------------------------------------------------------------------
\* Math.exp
\* ------------------------------------------------------------------------

\* IEEE double range of Math.exp: exp(y) is 0 for y < -745.13 and +Infinity
\* for y > 709.78 (thresholds taken at the integer part).
ExpUnderflow == 745
ExpOverflow == 709

\* Math.exp(y).  Inside the IEEE range the value is reduced to the grid
\*    1 + floor(y / ExpStep)        for y >= 0
\*    1 / (1 + ceil(-y / ExpStep))  for y <  0
\* which is positive, non-decreasing in y and 1 at y = 0.
DExp(y) ==
    CASE y.k = "nan"  -> NaN
      [] y.k = "pinf" -> PInf
      [] y.k = "ninf" -> Zero
      [] OTHER ->
           IF y.n >= 0
           THEN IF y.n \div y.d > ExpOverflow THEN PInf
                ELSE Num(1 + (y.n \div y.d) \div ExpStep)
           ELSE IF (-y.n) \div y.d > ExpUnderflow THEN Zero
                ELSE LET c == ((-y.n) + y.d - 1) \div y.d   \* ceil(-y)
                     IN  Rat(1, 1 + (c + ExpStep - 1) \div ExpStep)


\* Infix notation for the arithmetic of JavaScript numbers.
a ++ b == DAdd(a, b)
a -- b == DSub(a, b)
a ** b == DMul(a, b)
a // b == DDiv(a, b)

\* ------------------------------------------------------------------------
\* zieglerModel.ts: constants
\* ------------------------------------------------------------------------

\* Molecular weights (g/mol).
MC2 == 28
MC6 == 84

\* Math.exp(b) of a literal b is folded into the table below; values of 1e6
\* and above are stored as ExpCap.  For every temperature T < 1340 K both
\* the true value and ExpCap give exp(b)/T > 745.13, so Math.exp(-exp(b)/T)
\* underflows to 0 either way, and for T < 0 both overflow to +Infinity.
ExpCap == Num(1000000)

\* The Arrhenius literals: a as written (5 decimals), eb = Math.exp(b).
KineticParameters ==
    [ ka      |-> [a |-> Rat(190413, 100000),   eb |-> Rat(10523, 1000)],  \* l.140  b = 2.35352
      kaa     |-> [a |-> Rat(4280610, 100000),  eb |-> Rat(7930, 1000) ],  \* l.141  b = 2.07067
      kaH     |-> [a |-> Rat(4349130, 100000),  eb |-> Rat(6144, 1000) ],  \* l.142  b = 1.81544
      ki1_1   |-> [a |-> Rat(272252, 100000),   eb |-> Rat(1002, 1000) ],  \* l.146  b = 0.00164819
      ki1_2   |-> [a |-> Rat(1900, 100000),     eb |-> Rat(15927, 1000)],  \* l.147  b = 2.76802
      ki2_1   |-> [a |-> Rat(158, 100000),      eb |-> ExpCap          ],  \* l.148  b = 75.0948
      ki2_2   |-> [a |-> Rat(249924, 100000),   eb |-> Rat(47905, 1000)],  \* l.149  b = 3.86923
      kp11_1  |-> [a |-> Rat(2350790, 100000),  eb |-> ExpCap          ],  \* l.153  b = 62.7073
      kp11_2  |-> [a |-> Rat(4441085, 100000),  eb |-> Num(8311)       ],  \* l.154  b = 9.02536689954115
      kp12_1  |-> [a |-> Rat(745487, 100000),   eb |-> ExpCap          ],  \* l.155  b = 570.828
      kp12_2  |-> [a |-> Rat(1662693, 100000),  eb |-> Rat(1014, 1000) ],  \* l.156  b = 1.34505395511823E-02
      kp21_1  |-> [a |-> Rat(1176910, 100000),  eb |-> Num(501120)     ],  \* l.157  b = 13.1246
      kp21_2  |-> [a |-> Rat(1303852, 100000),  eb |-> Rat(1074, 1000) ],  \* l.158  b = 7.12672329782542E-02
      kp22_1  |-> [a |-> Rat(5068, 100000),     eb |-> ExpCap          ],  \* l.159  b = 91.5249
      kp22_2  |-> [a |-> Rat(1024829, 100000),  eb |-> ExpCap          ],  \* l.160  b = 245.73403529402
      kt11_1  |-> [a |-> Rat(191232, 100000),   eb |-> ExpCap          ],  \* l.164  b = 574.851
      kt11_2  |-> [a |-> Rat(212135, 100000),   eb |-> ExpCap          ],  \* l.165  b = 198.691
      kt12_1  |-> [a |-> Rat(230860, 100000),   eb |-> ExpCap          ],  \* l.166  b = 598.13
      kt12_2  |-> [a |-> Rat(192168, 100000),   eb |-> ExpCap          ],  \* l.167  b = 449.254
      kt21_1  |-> [a |-> Rat(188274, 100000),   eb |-> Num(35550)      ],  \* l.168  b = 10.4787
      kt21_2  |-> [a |-> Rat(181545, 100000),   eb |-> ExpCap          ],  \* l.169  b = 50.6018
      kt22_1  |-> [a |-> Rat(185856, 100000),   eb |-> ExpCap          ],  \* l.170  b = 15.4026
      kt22_2  |-> [a |-> Rat(204100, 100000),   eb |-> ExpCap          ],  \* l.171  b = 476.019
      ktH1_1  |-> [a |-> Rat(824086, 100000),   eb |-> ExpCap          ],  \* l.172  b = 24.0953
      ktH1_2  |-> [a |-> Rat(787596, 100000),   eb |-> Rat(19147, 1000)],  \* l.173  b = 2.95216
      ktH2_1  |-> [a |-> Rat(1043910, 100000),  eb |-> Rat(1002, 1000) ],  \* l.174  b = 0.00153492
      ktH2_2  |-> [a |-> Rat(80682, 100000),    eb |-> ExpCap          ],  \* l.175  b = 46.4001
      kte1_1  |-> [a |-> Rat(201811, 100000),   eb |-> ExpCap          ],  \* l.179  b = 13.8224
      kte1_2  |-> [a |-> Rat(199198, 100000),   eb |-> ExpCap          ],  \* l.180  b = 15.4759
      kte2_1  |-> [a |-> Rat(183056, 100000),   eb |-> ExpCap          ],  \* l.181  b = 15.2807
      kte2_2  |-> [a |-> Rat(211061, 100000),   eb |-> Num(54090)      ],  \* l.182  b = 10.8984
      kethane |-> [a |-> Rat(101, 100000),      eb |-> Rat(21500, 1000)] ]  \* l.185  b = 3.06806

teta1 == Rat(624963, 1000000)
teta2 == One -- teta1

\* The guard 1E-25 added to the denominators of the fractions.
Eps == Rat(1, EpsDen)

\* The switch with the default branch falling back to reactor 1.
EthDefaultsToReactor1(reactorFlag) ==
    CASE reactorFlag = 2 -> Rat(113724, 100000)
      [] reactorFlag = 3 -> Rat(318066, 1000000)
      [] reactorFlag = 4 -> Rat(456617, 1000000)
      [] OTHER           -> Rat(534329, 100000)

\* switch (reactorFlag) { case 1 .. 4; default: eth = 0 }
Eth(reactorFlag) ==
    CASE reactorFlag = 1 -> Rat(534329, 100000)
      [] reactorFlag = 2 -> Rat(113724, 100000)
      [] reactorFlag = 3 -> Rat(318066, 1000000)
      [] reactorFlag = 4 -> Rat(456617, 1000000)
      [] OTHER           -> Zero

\* The constant with the sign of the exponent lost: exp(a) * exp(exp(b) / T).
ArrheniusSignLost(p, T) == DExp(p.a) ** DExp(p.eb // T)

\* k = Math.exp(a) * Math.exp(-Math.exp(b) / T)
Arrhenius(p, T) == DExp(p.a) ** DExp(DNeg(p.eb // T))

\* Every kinetic constant at temperature T, under its name.
KineticConstants(T) ==
    [ name \in DOMAIN KineticParameters |-> Arrhenius(KineticParameters[name], T) ]

\* ------------------------------------------------------------------------
\* zieglerModel.ts: calculateReactionRates
\* ------------------------------------------------------------------------

\* const { hydrogen: H2, ethylene: M1, ... } = inputs
Destructure(inp) ==
    [ H2 |-> inp.hydrogen,
      M1 |-> inp.ethylene,
      M2 |-> inp.hexene,
      N0_1 |-> inp.activeSites_z0_1,
      N0_2 |-> inp.activeSites_z0_2,
      N1_1 |-> inp.livingPolymerEnd_z1_1,
      N1_2 |-> inp.livingPolymerEnd_z1_2,
      N2_1 |-> inp.livingPolymerEnd_z2_1,
      N2_2 |-> inp.livingPolymerEnd_z2_2,
      S |-> inp.catalyst,
      S1 |-> inp.cr6,
      Y0_1 |-> inp.livingPolymerMoment0_y0_1,
      Y0_2 |-> inp.livingPolymerMoment0_y0_2,
      Y1_1 |-> inp.livingPolymerMoment1_y1_1,
      Y1_2 |-> inp.livingPolymerMoment1_y1_2,
      Y2_1 |-> inp.livingPolymerMoment2_y2_1,
      Y2_2 |-> inp.livingPolymerMoment2_y2_2,
      V |-> inp.volume,
      T |-> inp.temperature,
      c |-> inp.cocatalyst,
      reactorFlag |-> inp.reactorFlag ]

totalMonomerConcentration(i) == i.M1 ++ i.M2

\* The fractions without the 1E-25 guard in the denominators.
FractionsUnguarded(i) ==
    LET phi1_1 == i.N1_1 // (i.N1_1 ++ i.N2_1)
        phi1_2 == i.N1_2 // (i.N1_2 ++ i.N2_2)
    IN  [ f1 |-> i.M1 // totalMonomerConcentration(i),
          f2 |-> i.M2 // totalMonomerConcentration(i),
          phi1_1 |-> phi1_1,
          phi1_2 |-> phi1_2,
          phi2_1 |-> One -- phi1_1,
          phi2_2 |-> One -- phi1_2 ]

\* The fractions with phi2 computed like phi1, as N2 / (N1 + N2 + 1E-25).
FractionsSymmetric(i) ==
    [ f1 |-> i.M1 // (totalMonomerConcentration(i) ++ Eps),
      f2 |-> i.M2 // (totalMonomerConcentration(i) ++ Eps),
      phi1_1 |-> i.N1_1 // (i.N1_1 ++ i.N2_1 ++ Eps),
      phi1_2 |-> i.N1_2 // (i.N1_2 ++ i.N2_2 ++ Eps),
      phi2_1 |-> i.N2_1 // (i.N1_1 ++ i.N2_1 ++ Eps),
      phi2_2 |-> i.N2_2 // (i.N1_2 ++ i.N2_2 ++ Eps) ]

\* Monomer mole fractions and end-group fractions of the living chains.
Fractions(i) ==
    LET phi1_1 == i.N1_1 // (i.N1_1 ++ i.N2_1 ++ Eps)
        phi1_2 == i.N1_2 // (i.N1_2 ++ i.N2_2 ++ Eps)
    IN  [ f1 |-> i.M1 // (totalMonomerConcentration(i) ++ Eps),
          f2 |-> i.M2 // (totalMonomerConcentration(i) ++ Eps),
          phi1_1 |-> phi1_1,
          phi1_2 |-> phi1_2,
          phi2_1 |-> One -- phi1_1,
          phi2_2 |-> One -- phi1_2 ]

\* The pseudo constants with transfer to hydrogen and termination weighted by
\* the monomer fractions f1, f2 instead of the end-group fractions.
PseudoConstantsTransferByMonomer(k, fr) ==
    [ pseudo_ki_1 |-> (k.ki1_1 ** fr.f1 ++ k.ki2_1 ** fr.f2),
      pseudo_ki_2 |-> (k.ki1_2 ** fr.f1 ++ k.ki2_2 ** fr.f2),
      pseudo_kp_1 |-> (k.kp11_1 ** fr.f1 ** fr.phi1_1 ++ k.kp21_1 ** fr.f1 ** fr.phi2_1 ++ k.kp22_1 ** fr.f2 ** fr.phi2_1 ++ k.kp12_1 ** fr.phi1_1 ** fr.f2),
      pseudo_kp_2 |-> (k.kp11_2 ** fr.f1 ** fr.phi1_2 ++ k.kp21_2 ** fr.f1 ** fr.phi2_2 ++ k.kp22_2 ** fr.f2 ** fr.phi2_2 ++ k.kp12_2 ** fr.phi1_2 ** fr.f2),
      pseudo_kt_1 |-> (k.kt11_1 ** fr.f1 ** fr.phi1_1 ++ k.kt21_1 ** fr.f1 ** fr.phi2_1 ++ k.kt22_1 ** fr.f2 ** fr.phi2_1 ++ k.kt12_1 ** fr.phi1_1 ** fr.f2),
      pseudo_kt_2 |-> (k.kt11_2 ** fr.f1 ** fr.phi1_2 ++ k.kt21_2 ** fr.f1 ** fr.phi2_2 ++ k.kt22_2 ** fr.f2 ** fr.phi2_2 ++ k.kt12_2 ** fr.phi1_2 ** fr.f2),
      pseudo_ktH_1 |-> (k.ktH1_1 ** fr.f1 ++ k.ktH2_1 ** fr.f2),
      pseudo_ktH_2 |-> (k.ktH1_2 ** fr.f1 ++ k.ktH2_2 ** fr.f2),
      pseudo_kte_1 |-> (k.kte1_1 ** fr.f1 ++ k.kte2_1 ** fr.f2),
      pseudo_kte_2 |-> (k.kte1_2 ** fr.f1 ++ k.kte2_2 ** fr.f2) ]

\* Pseudo-constants calculation
PseudoConstants(k, fr) ==
    [ pseudo_ki_1 |-> (k.ki1_1 ** fr.f1 ++ k.ki2_1 ** fr.f2),
      pseudo_ki_2 |-> (k.ki1_2 ** fr.f1 ++ k.ki2_2 ** fr.f2),
      pseudo_kp_1 |-> (k.kp11_1 ** fr.f1 ** fr.phi1_1 ++ k.kp21_1 ** fr.f1 ** fr.phi2_1 ++ k.kp22_1 ** fr.f2 ** fr.phi2_1 ++ k.kp12_1 ** fr.phi1_1 ** fr.f2),
      pseudo_kp_2 |-> (k.kp11_2 ** fr.f1 ** fr.phi1_2 ++ k.kp21_2 ** fr.f1 ** fr.phi2_2 ++ k.kp22_2 ** fr.f2 ** fr.phi2_2 ++ k.kp12_2 ** fr.phi1_2 ** fr.f2),
      pseudo_kt_1 |-> (k.kt11_1 ** fr.f1 ** fr.phi1_1 ++ k.kt21_1 ** fr.f1 ** fr.phi2_1 ++ k.kt22_1 ** fr.f2 ** fr.phi2_1 ++ k.kt12_1 ** fr.phi1_1 ** fr.f2),
      pseudo_kt_2 |-> (k.kt11_2 ** fr.f1 ** fr.phi1_2 ++ k.kt21_2 ** fr.f1 ** fr.phi2_2 ++ k.kt22_2 ** fr.f2 ** fr.phi2_2 ++ k.kt12_2 ** fr.phi1_2 ** fr.f2),
      pseudo_ktH_1 |-> (k.ktH1_1 ** fr.phi1_1 ++ k.ktH2_1 ** fr.phi2_1),
      pseudo_ktH_2 |-> (k.ktH1_2 ** fr.phi1_2 ++ k.ktH2_2 ** fr.phi2_2),
      pseudo_kte_1 |-> (k.kte1_1 ** fr.phi1_1 ++ k.kte2_1 ** fr.phi2_1),
      pseudo_kte_2 |-> (k.kte1_2 ** fr.phi1_2 ++ k.kte2_2 ** fr.phi2_2) ]

\* The monomer rates without the consumption by transfer to monomer.
MonomerRatesWithoutTransfer(i, k, fr) ==
    [ RM1 |-> DNeg(i.N0_1) ** i.M1 ** k.ki1_1 -- i.N0_2 ** i.M1 ** k.ki1_2 -- i.M1 ** i.Y0_1 ** (k.kp11_1 ** fr.phi1_1 ++ k.kp21_1 ** fr.phi2_1) -- i.M1 ** i.Y0_2 ** (k.kp11_2 ** fr.phi1_2 ++ k.kp21_2 ** fr.phi2_2),
      RM2 |-> DNeg(i.N0_1) ** i.M2 ** k.ki2_1 -- i.N0_2 ** i.M2 ** k.ki2_2 -- i.M2 ** i.Y0_1 ** (k.kp22_1 ** fr.phi2_1 ++ k.kp12_1 ** fr.phi1_1) -- i.M2 ** i.Y0_2 ** (k.kp22_2 ** fr.phi2_2 ++ k.kp12_2 ** fr.phi1_2) ]

\* Monomer consumption rates
MonomerRates(i, k, fr) ==
    [ RM1 |-> DNeg(i.N0_1) ** i.M1 ** k.ki1_1 -- i.N0_2 ** i.M1 ** k.ki1_2 -- i.M1 ** i.Y0_1 ** (k.kp11_1 ** fr.phi1_1 ++ k.kt11_1 ** fr.phi1_1 ++ k.kp21_1 ** fr.phi2_1 ++ k.kt21_1 ** fr.phi2_1) -- i.M1 ** i.Y0_2 ** (k.kp11_2 ** fr.phi1_2 ++ k.kt11_2 ** fr.phi1_2 ++ k.kp21_2 ** fr.phi2_2 ++ k.kt21_2 ** fr.phi2_2),
      RM2 |-> DNeg(i.N0_1) ** i.M2 ** k.ki2_1 -- i.N0_2 ** i.M2 ** k.ki2_2 -- i.M2 ** i.Y0_1 ** (k.kp22_1 ** fr.phi2_1 ++ k.kt22_1 ** fr.phi2_1 ++ k.kp12_1 ** fr.phi1_1 ++ k.kt12_1 ** fr.phi1_1) -- i.M2 ** i.Y0_2 ** (k.kp22_2 ** fr.phi2_2 ++ k.kt22_2 ** fr.phi2_2 ++ k.kp12_2 ** fr.phi1_2 ++ k.kt12_2 ** fr.phi1_2) ]

\* The hydrogen rate with the ethane side reaction releasing hydrogen.
HydrogenRateEthaneReleased(i, k, eth) ==
    DNeg(i.Y0_1) ** i.H2 ** (k.ktH1_1 ++ k.ktH2_1) -- i.Y0_2 ** i.H2 ** (k.ktH1_2 ++ k.ktH2_2) -- k.kaH ** i.H2 ** i.S1 ++ k.kethane ** i.H2 ** eth

\* The hydrogen rate with eth multiplying the cr6 activation term as well.
HydrogenRateEthOnActivation(i, k, eth) ==
    DNeg(i.Y0_1) ** i.H2 ** (k.ktH1_1 ++ k.ktH2_1) -- i.Y0_2 ** i.H2 ** (k.ktH1_2 ++ k.ktH2_2) -- k.kaH ** i.H2 ** i.S1 ** eth -- k.kethane ** i.H2 ** eth

\* Hydrogen consumption rate
HydrogenRate(i, k, eth) ==
    DNeg(i.Y0_1) ** i.H2 ** (k.ktH1_1 ++ k.ktH2_1) -- i.Y0_2 ** i.H2 ** (k.ktH1_2 ++ k.ktH2_2) -- k.kaH ** i.H2 ** i.S1 -- k.kethane ** i.H2 ** eth

\* The catalyst rates with the cocatalyst consumed by the ka step alone.
CatalystRatesCocatalystOnce(i, k) ==
    [ RS |-> DNeg(k.ka) ** i.S ** i.c -- k.kaa ** i.c ** i.S,
      RS1 |-> DNeg(k.kaH) ** i.H2 ** i.S1 ++ k.kaa ** i.c ** i.S,
      RC |-> DNeg(k.ka) ** i.S ** i.c ]

\* Catalyst site rates
CatalystRates(i, k) ==
    [ RS |-> DNeg(k.ka) ** i.S ** i.c -- k.kaa ** i.c ** i.S,
      RS1 |-> DNeg(k.kaH) ** i.H2 ** i.S1 ++ k.kaa ** i.c ** i.S,
      RC |-> DNeg(k.ka) ** i.S ** i.c -- k.kaa ** i.c ** i.S ]

\* The active-site rates with both sites replenished by the share teta1.
ActiveSiteRatesEqualShares(i, k) ==
    [ RN0_1 |-> (k.ka ** i.S ** i.c ++ k.kaH ** i.H2 ** i.S1) ** teta1 -- k.ki1_1 ** i.N0_1 ** i.M1 -- k.ki2_1 ** i.N0_1 ** i.M2,
      RN0_2 |-> (k.ka ** i.S ** i.c ++ k.kaH ** i.H2 ** i.S1) ** teta1 -- k.ki1_2 ** i.N0_2 ** i.M1 -- k.ki2_2 ** i.N0_2 ** i.M2 ]

\* The active-site rates with initiation depleting in proportion to the
\* living chains Y0_j instead of the vacant sites N0_j.
ActiveSiteRatesFromLivingChains(i, k) ==
    [ RN0_1 |-> (k.ka ** i.S ** i.c ++ k.kaH ** i.H2 ** i.S1) ** teta1 -- k.ki1_1 ** i.Y0_1 ** i.M1 -- k.ki2_1 ** i.Y0_1 ** i.M2,
      RN0_2 |-> (k.ka ** i.S ** i.c ++ k.kaH ** i.H2 ** i.S1) ** teta2 -- k.ki1_2 ** i.Y0_2 ** i.M1 -- k.ki2_2 ** i.Y0_2 ** i.M2 ]

\* Active site rates (formation and consumption)
ActiveSiteRates(i, k) ==
    [ RN0_1 |-> (k.ka ** i.S ** i.c ++ k.kaH ** i.H2 ** i.S1) ** teta1 -- k.ki1_1 ** i.N0_1 ** i.M1 -- k.ki2_1 ** i.N0_1 ** i.M2,
      RN0_2 |-> (k.ka ** i.S ** i.c ++ k.kaH ** i.H2 ** i.S1) ** teta2 -- k.ki1_2 ** i.N0_2 ** i.M1 -- k.ki2_2 ** i.N0_2 ** i.M2 ]

\* The living moments with the zeroth moment losing no chains to
\* termination.
LivingMomentRatesZerothUnterminated(i, ps) ==
    [ RY0_1 |-> i.N0_1 ** totalMonomerConcentration(i) ** ps.pseudo_ki_1 -- i.Y0_1 ** i.H2 ** ps.pseudo_ktH_1,
      RY0_2 |-> i.N0_2 ** totalMonomerConcentration(i) ** ps.pseudo_ki_2 -- i.Y0_2 ** i.H2 ** ps.pseudo_ktH_2,
      RY1_1 |-> i.N0_1 ** totalMonomerConcentration(i) ** ps.pseudo_ki_1 ++ totalMonomerConcentration(i) ** i.Y0_1 ** (ps.pseudo_kp_1 ++ ps.pseudo_kt_1) -- totalMonomerConcentration(i) ** i.Y1_1 ** ps.pseudo_kt_1 -- i.Y1_1 ** (i.H2 ** ps.pseudo_ktH_1 ++ ps.pseudo_kte_1),
      RY1_2 |-> i.N0_2 ** totalMonomerConcentration(i) ** ps.pseudo_ki_2 ++ totalMonomerConcentration(i) ** i.Y0_2 ** (ps.pseudo_kp_2 ++ ps.pseudo_kt_2) -- totalMonomerConcentration(i) ** i.Y1_2 ** ps.pseudo_kt_2 -- i.Y1_2 ** (i.H2 ** ps.pseudo_ktH_2 ++ ps.pseudo_kte_2),
      RY2_1 |-> i.N0_1 ** totalMonomerConcentration(i) ** ps.pseudo_ki_1 ++ totalMonomerConcentration(i) ** i.Y0_1 ** (ps.pseudo_kp_1 ++ ps.pseudo_kt_1) ++ Num(2) ** totalMonomerConcentration(i) ** ps.pseudo_kp_1 ** i.Y1_1 -- i.Y2_1 ** (ps.pseudo_kt_1 ** totalMonomerConcentration(i) ++ ps.pseudo_ktH_1 ** i.H2 ++ ps.pseudo_kte_1),
      RY2_2 |-> i.N0_2 ** totalMonomerConcentration(i) ** ps.pseudo_ki_2 ++ totalMonomerConcentration(i) ** i.Y0_2 ** (ps.pseudo_kp_2 ++ ps.pseudo_kt_2) ++ Num(2) ** totalMonomerConcentration(i) ** ps.pseudo_kp_2 ** i.Y1_2 -- i.Y2_2 ** (ps.pseudo_kt_2 ** totalMonomerConcentration(i) ++ ps.pseudo_ktH_2 ** i.H2 ++ ps.pseudo_kte_2) ]

\* The living moments with the propagation gain of the second moment counted
\* once instead of twice.
LivingMomentRatesSingleGain(i, ps) ==
    [ RY0_1 |-> i.N0_1 ** totalMonomerConcentration(i) ** ps.pseudo_ki_1 -- i.Y0_1 ** ps.pseudo_kte_1 -- i.Y0_1 ** i.H2 ** ps.pseudo_ktH_1,
      RY0_2 |-> i.N0_2 ** totalMonomerConcentration(i) ** ps.pseudo_ki_2 -- i.Y0_2 ** ps.pseudo_kte_2 -- i.Y0_2 ** i.H2 ** ps.pseudo_ktH_2,
      RY1_1 |-> i.N0_1 ** totalMonomerConcentration(i) ** ps.pseudo_ki_1 ++ totalMonomerConcentration(i) ** i.Y0_1 ** (ps.pseudo_kp_1 ++ ps.pseudo_kt_1) -- totalMonomerConcentration(i) ** i.Y1_1 ** ps.pseudo_kt_1 -- i.Y1_1 ** (i.H2 ** ps.pseudo_ktH_1 ++ ps.pseudo_kte_1),
      RY1_2 |-> i.N0_2 ** totalMonomerConcentration(i) ** ps.pseudo_ki_2 ++ totalMonomerConcentration(i) ** i.Y0_2 ** (ps.pseudo_kp_2 ++ ps.pseudo_kt_2) -- totalMonomerConcentration(i) ** i.Y1_2 ** ps.pseudo_kt_2 -- i.Y1_2 ** (i.H2 ** ps.pseudo_ktH_2 ++ ps.pseudo_kte_2),
      RY2_1 |-> i.N0_1 ** totalMonomerConcentration(i) ** ps.pseudo_ki_1 ++ totalMonomerConcentration(i) ** i.Y0_1 ** (ps.pseudo_kp_1 ++ ps.pseudo_kt_1) ++ totalMonomerConcentration(i) ** ps.pseudo_kp_1 ** i.Y1_1 -- i.Y2_1 ** (ps.pseudo_kt_1 ** totalMonomerConcentration(i) ++ ps.pseudo_ktH_1 ** i.H2 ++ ps.pseudo_kte_1),
      RY2_2 |-> i.N0_2 ** totalMonomerConcentration(i) ** ps.pseudo_ki_2 ++ totalMonomerConcentration(i) ** i.Y0_2 ** (ps.pseudo_kp_2 ++ ps.pseudo_kt_2) ++ totalMonomerConcentration(i) ** ps.pseudo_kp_2 ** i.Y1_2 -- i.Y2_2 ** (ps.pseudo_kt_2 ** totalMonomerConcentration(i) ++ ps.pseudo_ktH_2 ** i.H2 ++ ps.pseudo_kte_2) ]

\* Living polymer moments rates
LivingMomentRates(i, ps) ==
    [ RY0_1 |-> i.N0_1 ** totalMonomerConcentration(i) ** ps.pseudo_ki_1 -- i.Y0_1 ** ps.pseudo_kte_1 -- i.Y0_1 ** i.H2 ** ps.pseudo_ktH_1,
      RY0_2 |-> i.N0_2 ** totalMonomerConcentration(i) ** ps.pseudo_ki_2 -- i.Y0_2 ** ps.pseudo_kte_2 -- i.Y0_2 ** i.H2 ** ps.pseudo_ktH_2,
      RY1_1 |-> i.N0_1 ** totalMonomerConcentration(i) ** ps.pseudo_ki_1 ++ totalMonomerConcentration(i) ** i.Y0_1 ** (ps.pseudo_kp_1 ++ ps.pseudo_kt_1) -- totalMonomerConcentration(i) ** i.Y1_1 ** ps.pseudo_kt_1 -- i.Y1_1 ** (i.H2 ** ps.pseudo_ktH_1 ++ ps.pseudo_kte_1),
      RY1_2 |-> i.N0_2 ** totalMonomerConcentration(i) ** ps.pseudo_ki_2 ++ totalMonomerConcentration(i) ** i.Y0_2 ** (ps.pseudo_kp_2 ++ ps.pseudo_kt_2) -- totalMonomerConcentration(i) ** i.Y1_2 ** ps.pseudo_kt_2 -- i.Y1_2 ** (i.H2 ** ps.pseudo_ktH_2 ++ ps.pseudo_kte_2),
      RY2_1 |-> i.N0_1 ** totalMonomerConcentration(i) ** ps.pseudo_ki_1 ++ totalMonomerConcentration(i) ** i.Y0_1 ** (ps.pseudo_kp_1 ++ ps.pseudo_kt_1) ++ Num(2) ** totalMonomerConcentration(i) ** ps.pseudo_kp_1 ** i.Y1_1 -- i.Y2_1 ** (ps.pseudo_kt_1 ** totalMonomerConcentration(i) ++ ps.pseudo_ktH_1 ** i.H2 ++ ps.pseudo_kte_1),
      RY2_2 |-> i.N0_2 ** totalMonomerConcentration(i) ** ps.pseudo_ki_2 ++ totalMonomerConcentration(i) ** i.Y0_2 ** (ps.pseudo_kp_2 ++ ps.pseudo_kt_2) ++ Num(2) ** totalMonomerConcentration(i) ** ps.pseudo_kp_2 ** i.Y1_2 -- i.Y2_2 ** (ps.pseudo_kt_2 ** totalMonomerConcentration(i) ++ ps.pseudo_ktH_2 ** i.H2 ++ ps.pseudo_kte_2) ]

\* The dead moments with the first-order rates driven by the zeroth living
\* moment.
DeadMomentRatesFirstFromZeroth(i, ps) ==
    [ Rx0_1 |-> i.Y0_1 ** (totalMonomerConcentration(i) ** ps.pseudo_kt_1 ++ ps.pseudo_ktH_1 ** i.H2 ++ ps.pseudo_kte_1),
      Rx0_2 |-> i.Y0_2 ** (totalMonomerConcentration(i) ** ps.pseudo_kt_2 ++ ps.pseudo_ktH_2 ** i.H2 ++ ps.pseudo_kte_2),
      Rx1_1 |-> i.Y0_1 ** (totalMonomerConcentration(i) ** ps.pseudo_kt_1 ++ ps.pseudo_ktH_1 ** i.H2 ++ ps.pseudo_kte_1),
      Rx1_2 |-> i.Y0_2 ** (totalMonomerConcentration(i) ** ps.pseudo_kt_2 ++ ps.pseudo_ktH_2 ** i.H2 ++ ps.pseudo_kte_2),
      Rx2_1 |-> i.Y2_1 ** (totalMonomerConcentration(i) ** ps.pseudo_kt_1 ++ ps.pseudo_ktH_1 ** i.H2 ++ ps.pseudo_kte_1),
      Rx2_2 |-> i.Y2_2 ** (totalMonomerConcentration(i) ** ps.pseudo_kt_2 ++ ps.pseudo_ktH_2 ** i.H2 ++ ps.pseudo_kte_2) ]

\* Dead polymer moments rates
DeadMomentRates(i, ps) ==
    [ Rx0_1 |-> i.Y0_1 ** (totalMonomerConcentration(i) ** ps.pseudo_kt_1 ++ ps.pseudo_ktH_1 ** i.H2 ++ ps.pseudo_kte_1),
      Rx0_2 |-> i.Y0_2 ** (totalMonomerConcentration(i) ** ps.pseudo_kt_2 ++ ps.pseudo_ktH_2 ** i.H2 ++ ps.pseudo_kte_2),
      Rx1_1 |-> i.Y1_1 ** (totalMonomerConcentration(i) ** ps.pseudo_kt_1 ++ ps.pseudo_ktH_1 ** i.H2 ++ ps.pseudo_kte_1),
      Rx1_2 |-> i.Y1_2 ** (totalMonomerConcentration(i) ** ps.pseudo_kt_2 ++ ps.pseudo_ktH_2 ** i.H2 ++ ps.pseudo_kte_2),
      Rx2_1 |-> i.Y2_1 ** (totalMonomerConcentration(i) ** ps.pseudo_kt_1 ++ ps.pseudo_ktH_1 ** i.H2 ++ ps.pseudo_kte_1),
      Rx2_2 |-> i.Y2_2 ** (totalMonomerConcentration(i) ** ps.pseudo_kt_2 ++ ps.pseudo_ktH_2 ** i.H2 ++ ps.pseudo_kte_2) ]

\* The end-group rates with the hexene-ended chains not losing the chains
\* that ethylene converts.
EndGroupRatesConversionKept(i, k) ==
    [ RN1_1 |-> k.ki1_1 ** i.M1 ** i.N0_1 ++ k.kp21_1 ** i.N2_1 ** i.M1 ++ k.kt21_1 ** i.N2_1 ** i.M1 -- k.ktH1_1 ** i.H2 ** i.N1_1 -- k.kte1_1 ** i.N1_1 -- k.kp12_1 ** i.N1_1 ** i.M2 -- k.kt12_1 ** i.N1_1 ** i.M2,
      RN1_2 |-> k.ki1_2 ** i.M1 ** i.N0_2 ++ k.kp21_2 ** i.N2_2 ** i.M1 ++ k.kt21_2 ** i.N2_2 ** i.M1 -- k.ktH1_2 ** i.H2 ** i.N1_2 -- k.kte1_2 ** i.N1_2 -- k.kp12_2 ** i.N1_2 ** i.M2 -- k.kt12_2 ** i.N1_2 ** i.M2,
      RN2_1 |-> k.ki2_1 ** i.M2 ** i.N0_1 ++ k.kp12_1 ** i.N1_1 ** i.M2 ++ k.kt12_1 ** i.N1_1 ** i.M2 -- k.ktH2_1 ** i.H2 ** i.N2_1 -- k.kte2_1 ** i.N2_1,
      RN2_2 |-> k.ki2_2 ** i.M2 ** i.N0_2 ++ k.kp12_2 ** i.N1_2 ** i.M2 ++ k.kt12_2 ** i.N1_2 ** i.M2 -- k.ktH2_2 ** i.H2 ** i.N2_2 -- k.kte2_2 ** i.N2_2 ]

\* Living polymer end-group rates
EndGroupRates(i, k) ==
    [ RN1_1 |-> k.ki1_1 ** i.M1 ** i.N0_1 ++ k.kp21_1 ** i.N2_1 ** i.M1 ++ k.kt21_1 ** i.N2_1 ** i.M1 -- k.ktH1_1 ** i.H2 ** i.N1_1 -- k.kte1_1 ** i.N1_1 -- k.kp12_1 ** i.N1_1 ** i.M2 -- k.kt12_1 ** i.N1_1 ** i.M2,
      RN1_2 |-> k.ki1_2 ** i.M1 ** i.N0_2 ++ k.kp21_2 ** i.N2_2 ** i.M1 ++ k.kt21_2 ** i.N2_2 ** i.M1 -- k.ktH1_2 ** i.H2 ** i.N1_2 -- k.kte1_2 ** i.N1_2 -- k.kp12_2 ** i.N1_2 ** i.M2 -- k.kt12_2 ** i.N1_2 ** i.M2,
      RN2_1 |-> k.ki2_1 ** i.M2 ** i.N0_1 ++ k.kp12_1 ** i.N1_1 ** i.M2 ++ k.kt12_1 ** i.N1_1 ** i.M2 -- k.kp21_1 ** i.N2_1 ** i.M1 -- k.kt21_1 ** i.N2_1 ** i.M1 -- k.ktH2_1 ** i.H2 ** i.N2_1 -- k.kte2_1 ** i.N2_1,
      RN2_2 |-> k.ki2_2 ** i.M2 ** i.N0_2 ++ k.kp12_2 ** i.N1_2 ** i.M2 ++ k.kt12_2 ** i.N1_2 ** i.M2 -- k.kp21_2 ** i.N2_2 ** i.M1 -- k.kt21_2 ** i.N2_2 ** i.M1 -- k.ktH2_2 ** i.H2 ** i.N2_2 -- k.kte2_2 ** i.N2_2 ]

\* The polymer rate with the volume applied to rates already scaled by it.
PolymerRateGramsVolumeTwice(RM1, RM2, V) ==
    (DNeg(RM1 ** V) ** Num(MC2) ++ DNeg(RM2 ** V) ** Num(MC6)) ** V

\* The polymer rate taken from the rates of change, not from the consumption.
PolymerRateGramsNotNegated(RM1, RM2, V) ==
    (RM1 ** Num(MC2) ++ RM2 ** Num(MC6)) ** V

\* Total polymer production rate in g/h
PolymerRateGrams(RM1, RM2, V) ==
    LET polymerRate_M1_consumption == DNeg(RM1)
        polymerRate_M2_consumption == DNeg(RM2)
    IN  (polymerRate_M1_consumption ** Num(MC2) ++ polymerRate_M2_consumption ** Num(MC6)) ** V

\* The returned record with the hydrogen consumed reported as ethane formed.
OutputsEthaneFromHydrogen(m, RH2, cat, site, liv, dead, end, polymerRateGrams, V) ==
    [ polymerProductionRate |-> polymerRateGrams,
      ratePolymerMass |-> polymerRateGrams,
      rateNitrogen |-> Zero,
      rateEthylene |-> m.RM1 ** V,
      rateEthane |-> DNeg(RH2) ** V,
      ratePropane |-> Zero,
      rateButene |-> Zero,
      rateIsobutane |-> Zero,
      rateHexene |-> m.RM2 ** V,
      rateHexane |-> Zero,
      rateWater |-> Zero,
      rateCarbonMonoxide |-> Zero,
      rateMethane |-> Zero,
      rateHydrogen |-> RH2 ** V,
      rateEthylenesegment |-> Zero,
      rateHexenesegment |-> Zero,
      rateCatalyst |-> cat.RS ** V,
      rateCocatalyst |-> cat.RC ** V,
      rateCr6 |-> cat.RS1 ** V,
      rateDeadPolymerMoment0_x0_1 |-> dead.Rx0_1 ** V,
      rateDeadPolymerMoment0_x0_2 |-> dead.Rx0_2 ** V,
      rateDeadPolymerMoment1_x1_1 |-> dead.Rx1_1 ** V,
      rateDeadPolymerMoment1_x1_2 |-> dead.Rx1_2 ** V,
      rateDeadPolymerMoment2_x2_1 |-> dead.Rx2_1 ** V,
      rateDeadPolymerMoment2_x2_2 |-> dead.Rx2_2 ** V,
      rateLivingPolymerMoment0_y0_1 |-> liv.RY0_1 ** V,
      rateLivingPolymerMoment0_y0_2 |-> liv.RY0_2 ** V,
      rateLivingPolymerMoment1_y1_1 |-> liv.RY1_1 ** V,
      rateLivingPolymerMoment1_y1_2 |-> liv.RY1_2 ** V,
      rateLivingPolymerMoment2_y2_1 |-> liv.RY2_1 ** V,
      rateLivingPolymerMoment2_y2_2 |-> liv.RY2_2 ** V,
      rateActiveSites_z0_1 |-> site.RN0_1 ** V,
      rateActiveSites_z0_2 |-> site.RN0_2 ** V,
      rateLivingPolymerEnd_z1_1 |-> end.RN1_1 ** V,
      rateLivingPolymerEnd_z1_2 |-> end.RN1_2 ** V,
      rateLivingPolymerEnd_z2_1 |-> end.RN2_1 ** V,
      rateLivingPolymerEnd_z2_2 |-> end.RN2_2 ** V ]

\* The returned record with the ethylene rate left in mol/L/h.
OutputsEthylenePerLitre(m, RH2, cat, site, liv, dead, end, polymerRateGrams, V) ==
    [ polymerProductionRate |-> polymerRateGrams,
      ratePolymerMass |-> polymerRateGrams,
      rateNitrogen |-> Zero,
      rateEthylene |-> m.RM1,
      rateEthane |-> Zero,
      ratePropane |-> Zero,
      rateButene |-> Zero,
      rateIsobutane |-> Zero,
      rateHexene |-> m.RM2 ** V,
      rateHexane |-> Zero,
      rateWater |-> Zero,
      rateCarbonMonoxide |-> Zero,
      rateMethane |-> Zero,
      rateHydrogen |-> RH2 ** V,
      rateEthylenesegment |-> Zero,
      rateHexenesegment |-> Zero,
      rateCatalyst |-> cat.RS ** V,
      rateCocatalyst |-> cat.RC ** V,
      rateCr6 |-> cat.RS1 ** V,
      rateDeadPolymerMoment0_x0_1 |-> dead.Rx0_1 ** V,
      rateDeadPolymerMoment0_x0_2 |-> dead.Rx0_2 ** V,
      rateDeadPolymerMoment1_x1_1 |-> dead.Rx1_1 ** V,
      rateDeadPolymerMoment1_x1_2 |-> dead.Rx1_2 ** V,
      rateDeadPolymerMoment2_x2_1 |-> dead.Rx2_1 ** V,
      rateDeadPolymerMoment2_x2_2 |-> dead.Rx2_2 ** V,
      rateLivingPolymerMoment0_y0_1 |-> liv.RY0_1 ** V,
      rateLivingPolymerMoment0_y0_2 |-> liv.RY0_2 ** V,
      rateLivingPolymerMoment1_y1_1 |-> liv.RY1_1 ** V,
      rateLivingPolymerMoment1_y1_2 |-> liv.RY1_2 ** V,
      rateLivingPolymerMoment2_y2_1 |-> liv.RY2_1 ** V,
      rateLivingPolymerMoment2_y2_2 |-> liv.RY2_2 ** V,
      rateActiveSites_z0_1 |-> site.RN0_1 ** V,
      rateActiveSites_z0_2 |-> site.RN0_2 ** V,
      rateLivingPolymerEnd_z1_1 |-> end.RN1_1 ** V,
      rateLivingPolymerEnd_z1_2 |-> end.RN1_2 ** V,
      rateLivingPolymerEnd_z2_1 |-> end.RN2_1 ** V,
      rateLivingPolymerEnd_z2_2 |-> end.RN2_2 ** V ]

\* The returned record: rates converted from mol/L/h to mol/h.
Outputs(m, RH2, cat, site, liv, dead, end, polymerRateGrams, V) ==
    [ polymerProductionRate |-> polymerRateGrams,
      ratePolymerMass |-> polymerRateGrams,
      rateNitrogen |-> Zero,
      rateEthylene |-> m.RM1 ** V,
      rateEthane |-> Zero,
      ratePropane |-> Zero,
      rateButene |-> Zero,
      rateIsobutane |-> Zero,
      rateHexene |-> m.RM2 ** V,
      rateHexane |-> Zero,
      rateWater |-> Zero,
      rateCarbonMonoxide |-> Zero,
      rateMethane |-> Zero,
      rateHydrogen |-> RH2 ** V,
      rateEthylenesegment |-> Zero,
      rateHexenesegment |-> Zero,
      rateCatalyst |-> cat.RS ** V,
      rateCocatalyst |-> cat.RC ** V,
      rateCr6 |-> cat.RS1 ** V,
      rateDeadPolymerMoment0_x0_1 |-> dead.Rx0_1 ** V,
      rateDeadPolymerMoment0_x0_2 |-> dead.Rx0_2 ** V,
      rateDeadPolymerMoment1_x1_1 |-> dead.Rx1_1 ** V,
      rateDeadPolymerMoment1_x1_2 |-> dead.Rx1_2 ** V,
      rateDeadPolymerMoment2_x2_1 |-> dead.Rx2_1 ** V,
      rateDeadPolymerMoment2_x2_2 |-> dead.Rx2_2 ** V,
      rateLivingPolymerMoment0_y0_1 |-> liv.RY0_1 ** V,
      rateLivingPolymerMoment0_y0_2 |-> liv.RY0_2 ** V,
      rateLivingPolymerMoment1_y1_1 |-> liv.RY1_1 ** V,
      rateLivingPolymerMoment1_y1_2 |-> liv.RY1_2 ** V,
      rateLivingPolymerMoment2_y2_1 |-> liv.RY2_1 ** V,
      rateLivingPolymerMoment2_y2_2 |-> liv.RY2_2 ** V,
      rateActiveSites_z0_1 |-> site.RN0_1 ** V,
      rateActiveSites_z0_2 |-> site.RN0_2 ** V,
      rateLivingPolymerEnd_z1_1 |-> end.RN1_1 ** V,
      rateLivingPolymerEnd_z1_2 |-> end.RN1_2 ** V,
      rateLivingPolymerEnd_z2_1 |-> end.RN2_1 ** V,
      rateLivingPolymerEnd_z2_2 |-> end.RN2_2 ** V ]

\* The fields of interface ZieglerModelOutputs.
OutputFields ==
    { "polymerProductionRate", "ratePolymerMass", "rateNitrogen",
      "rateEthylene", "rateEthane", "ratePropane", "rateButene",
      "rateIsobutane", "rateHexene", "rateHexane", "rateWater",
      "rateCarbonMonoxide", "rateMethane", "rateHydrogen",
      "rateEthylenesegment", "rateHexenesegment", "rateCatalyst",
      "rateCocatalyst", "rateCr6", "rateDeadPolymerMoment0_x0_1",
      "rateDeadPolymerMoment0_x0_2", "rateDeadPolymerMoment1_x1_1",
      "rateDeadPolymerMoment1_x1_2", "rateDeadPolymerMoment2_x2_1",
      "rateDeadPolymerMoment2_x2_2", "rateLivingPolymerMoment0_y0_1",
      "rateLivingPolymerMoment0_y0_2", "rateLivingPolymerMoment1_y1_1",
      "rateLivingPolymerMoment1_y1_2", "rateLivingPolymerMoment2_y2_1",
      "rateLivingPolymerMoment2_y2_2", "rateActiveSites_z0_1",
      "rateActiveSites_z0_2", "rateLivingPolymerEnd_z1_1",
      "rateLivingPolymerEnd_z1_2", "rateLivingPolymerEnd_z2_1",
      "rateLivingPolymerEnd_z2_2" }

calculateReactionRates(inp) ==
    LET i == Destructure(inp)
        eth == Eth(i.reactorFlag)
        fr == Fractions(i)
        k == KineticConstants(i.T)
        ps == PseudoConstants(k, fr)
        m == MonomerRates(i, k, fr)
    IN  Outputs(m, HydrogenRate(i, k, eth), CatalystRates(i, k), ActiveSiteRates(i, k),
                LivingMomentRates(i, ps), DeadMomentRates(i, ps), EndGroupRates(i, k),
                PolymerRateGrams(m.RM1, m.RM2, i.V), i.V)

\* A call that rejects a state without monomer instead of guarding the division.
ThrowsWithoutMonomer(inp) == inp.ethylene = Zero /\ inp.hexene = Zero

\* The function body holds no throw statement, and neither the arithmetic
\* operators nor Math.exp throw on numbers: no input record makes the call
\* raise an exception.
Throws(inp) == FALSE

\* One output object kept by the module and overwritten by every call.
AllocateShared(heap, rec) == IF heap = <<>> THEN <<rec>> ELSE [heap EXCEPT ![1] = rec]

\* The object literal `outputs` is a new object on every call.  The heap is
\* the sequence of the records returned so far; a reference is an index.
Allocate(heap, rec) == Append(heap, rec)

\* ------------------------------------------------------------------------
\* Inputs
\* ------------------------------------------------------------------------

Conc == {Num(v) : v \in 0..MaxConc}

\* Temperatures (K): the pages' defaults 353.15 and 363.15, two cold but
\* positive ones, and values that are not a positive finite temperature.
ValidTemperatures == {Rat(1, 1000), One, Rat(7063, 20), Rat(7263, 20)}
InvalidTemperatures == {Zero, Num(-5), NaN, PInf, NInf}
Temperatures == ValidTemperatures \cup InvalidTemperatures

ReactorFlags == {1, 2, 3, 4, 99}

\* (N0, N1, N2, Y0, Y1, Y2) of one site type.
NoSites   == <<0, 0, 0, 0, 0, 0>>
UnitSites == <<1, 1, 1, 1, 1, 1>>
SitesA    == <<1, 2, 0, 2, 3, 5>>
SitesB    == <<2, 0, 1, 1, 2, 4>>

\* Site type 1 and site type 2 together.
SitePairs ==
    { <<NoSites, NoSites>>, <<UnitSites, UnitSites>>, <<SitesA, SitesB>>,
      <<SitesB, SitesA>>, <<NoSites, UnitSites>>, <<UnitSites, NoSites>> }

\* (S, S1, c)
CatalystProfiles == { <<0, 0, 0>>, <<1, 0, 2>>, <<1, 1, 1>> }

MkInputs(M1, M2, H2, cat, s, V, T, flag) ==
    [ hydrogen |-> H2, ethylene |-> M1, hexene |-> M2,
      catalyst |-> Num(cat[1]), cr6 |-> Num(cat[2]), cocatalyst |-> Num(cat[3]),
      volume |-> V, temperature |-> T, reactorFlag |-> flag,
      activeSites_z0_1 |-> Num(s[1][1]), activeSites_z0_2 |-> Num(s[2][1]),
      livingPolymerEnd_z1_1 |-> Num(s[1][2]), livingPolymerEnd_z1_2 |-> Num(s[2][2]),
      livingPolymerEnd_z2_1 |-> Num(s[1][3]), livingPolymerEnd_z2_2 |-> Num(s[2][3]),
      livingPolymerMoment0_y0_1 |-> Num(s[1][4]), livingPolymerMoment0_y0_2 |-> Num(s[2][4]),
      livingPolymerMoment1_y1_1 |-> Num(s[1][5]), livingPolymerMoment1_y1_2 |-> Num(s[2][5]),
      livingPolymerMoment2_y2_1 |-> Num(s[1][6]), livingPolymerMoment2_y2_2 |-> Num(s[2][6]) ]

\* The input records a caller passes: every combination of monomer and
\* hydrogen concentrations, catalyst, sites, volume and temperature in
\* reactor 1, and every reactor flag and the volume 0 on fewer of them.
InputSpace ==
    { MkInputs(M1, M2, H2, cat, s, V, T, 1) :
        M1 \in Conc, M2 \in Conc, H2 \in {Zero, One}, cat \in CatalystProfiles,
        s \in SitePairs, V \in {One, Num(2)}, T \in Temperatures }
    \cup
    { MkInputs(M, M, H2, <<1, 1, 1>>, s, V, T, flag) :
        M \in {Zero, One}, H2 \in {Zero, One},
        s \in {<<NoSites, NoSites>>, <<SitesA, SitesB>>},
        V \in {Zero, One, Num(2)}, T \in Temperatures, flag \in ReactorFlags }

\* The input objects of the two pages (App.svelte): every slider field
\* positive, cr6 = 0, reactor 1, every site and moment the same small
\* positive value; 353.15 K in the first page and 363.15 K in the second.
AppDefaults ==
    { MkInputs(Num(2), One, One, <<1, 0, 2>>, <<UnitSites, UnitSites>>, One, T, 1) :
        T \in {Rat(7063, 20), Rat(7263, 20)} }

\* Values the range inputs of the page can be moved to.
SliderTemperatures == {Rat(7063, 20), Rat(7263, 20)}
SliderVolumes == {One, Num(2)}
SliderHydrogen == {Zero, One}

\* ------------------------------------------------------------------------
\* Component data: componentData.ts
\* ------------------------------------------------------------------------

\* A PropertyCoefficients object, as far as the selection of a coefficient
\* set reads it: `has` holds the optional fields that are present, `sets`
\* is the length of the coefficient arrays.
Coefficients(type, flag, has, count, tmin, tmax, sets) ==
    [ correlation_type |-> type, has_intervals |-> flag, has |-> has,
      interval_count |-> count, T_min |-> tmin, T_max |-> tmax, sets |-> sets ]

IntervalFields == {"interval_count", "T_min", "T_max"}

\* new Map(): a Map without entries, and the Map m after m.set(key, value).
EmptyMap == [key \in {} |-> 0]
MapSet(m, key, value) ==
    [x \in DOMAIN m \cup {key} |-> IF x = key THEN value ELSE m[x]]

\* componentData.ts: ETHYLENE and 1-HEXENE.
ethylene ==
    [ critical_temperature |-> Rat(28235, 100),
      properties |->
        [ VaporHeatCapacity |->
            Coefficients("Type1", TRUE, IntervalFields, 2,
                         <<Num(200), Num(500)>>, <<Num(500), Num(1500)>>, 2),
          LiquidViscosity |->
            Coefficients("Type2", FALSE, {}, 0, <<>>, <<>>, 1) ],
      calculated_properties |-> EmptyMap ]
hexene ==
    [ critical_temperature |-> Num(504),
      properties |->
        [ VaporHeatCapacity |->
            Coefficients("Type1", FALSE, {}, 0, <<>>, <<>>, 1) ],
      calculated_properties |-> EmptyMap ]

\* The library as componentData.ts fills it.
Library == [ETHYLENE |-> ethylene, HEXENE |-> hexene]

\* ------------------------------------------------------------------------
\* The page: App.svelte
\* ------------------------------------------------------------------------

\* `outputs` before the first successful calculation.
Null == 0

VARIABLES
    inputs,    \* the page's input object
    outputs,   \* Null, or the reference of the record shown
    heap,      \* the records calculateReactionRates has returned
    lastRun,   \* how the latest runCalculation ended, and on which arguments
    calls,     \* number of runCalculation invocations so far
    mounted,   \* the component has been mounted
    moves,     \* number of slider moves so far
    callers,   \* concurrent callers: position, argument and returned record
    frames,    \* the activation records of the calls in progress
    conversion,        \* a unit conversion and its conversion back, once made
    componentLibrary,  \* the exported Map of pure components
    calculated         \* a call of calculateAllProperties and its result

pageVars == <<inputs, outputs, heap, lastRun, calls, mounted, moves>>
concVars == <<callers, frames>>
libVars == <<conversion, componentLibrary, calculated>>
vars == <<pageVars, concVars, libVars>>

\* function runCalculation(): try { outputs = calculateReactionRates(inputs) }
\* catch (error) { console.error(...) }
runCalculation ==
    /\ calls < MaxCalls
    /\ calls' = calls + 1
    /\ IF Throws(inputs)
       THEN /\ lastRun' = [status |-> "threw", args |-> inputs]
            /\ UNCHANGED <<outputs, heap>>
       ELSE /\ heap' = Allocate(heap, calculateReactionRates(inputs))
            /\ outputs' = Len(heap')
            /\ lastRun' = [status |-> "returned", args |-> inputs]
    /\ UNCHANGED inputs
    /\ UNCHANGED <<concVars, libVars>>

\* onMount(() => { runCalculation(); })
onMount ==
    /\ ~mounted
    /\ mounted' = TRUE
    /\ runCalculation
    /\ UNCHANGED moves

\* <button on:click={runCalculation}>
Click ==
    /\ mounted
    /\ runCalculation
    /\ UNCHANGED <<mounted, moves>>

\* A slider whose move recomputes the displayed record at once, as a reactive
\* statement on inputs would.
MoveSliderRecalculates(field, v) ==
    /\ mounted
    /\ moves < MaxMoves
    /\ calls < MaxCalls
    /\ inputs[field] # v
    /\ inputs' = [inputs EXCEPT ![field] = v]
    /\ moves' = moves + 1
    /\ heap' = Append(heap, calculateReactionRates(inputs'))
    /\ outputs' = Len(heap')
    /\ UNCHANGED <<lastRun, calls, mounted>>
    /\ UNCHANGED <<concVars, libVars>>

\* A range input bound to one field of inputs is moved to the value v.
MoveSlider(field, v) ==
    /\ mounted
    /\ moves < MaxMoves
    /\ calls < MaxCalls
    /\ inputs[field] # v
    /\ inputs' = [inputs EXCEPT ![field] = v]
    /\ moves' = moves + 1
    /\ UNCHANGED <<outputs, heap, lastRun, calls, mounted>>
    /\ UNCHANGED <<concVars, libVars>>

SetTemperature == \E v \in SliderTemperatures : MoveSlider("temperature", v)
SetVolume      == \E v \in SliderVolumes : MoveSlider("volume", v)
SetHydrogen    == \E v \in SliderHydrogen : MoveSlider("hydrogen", v)
SetEthylene    == \E v \in Conc : MoveSlider("ethylene", v)
SetHexene      == \E v \in Conc : MoveSlider("hexene", v)

Fresh ==
    /\ outputs = Null
    /\ heap = <<>>
    /\ lastRun = [status |-> "none", args |-> inputs]
    /\ calls = 0
    /\ mounted = FALSE
    /\ moves = 0

\* No concurrent caller exists.
NoCallers == callers = <<>> /\ frames = <<>>

\* No library function has been called.
NoLibraryCall ==
    /\ conversion = [stage |-> "none"]
    /\ componentLibrary = Library
    /\ calculated = [stage |-> "none"]

\* One call of calculateReactionRates on any input record.
Init == inputs \in InputSpace /\ Fresh /\ NoCallers /\ NoLibraryCall

Next == onMount

Spec == Init /\ [][Next]_vars

\* A session of the page: mounted on its default inputs, then sliders and
\* the Calculate button in any order.
InitApp == inputs \in AppDefaults /\ Fresh /\ NoCallers /\ NoLibraryCall

NextApp ==
    \/ onMount
    \/ Click
    \/ SetTemperature
    \/ SetVolume
    \/ SetHydrogen
    \/ SetEthylene
    \/ SetHexene

SpecApp == InitApp /\ [][NextApp]_vars

\* ------------------------------------------------------------------------
\* Concurrent callers of calculateReactionRates
\* ------------------------------------------------------------------------

\* Every name the body of calculateReactionRates declares - the destructured
\* inputs, eth, the fractions, the kinetic constants - is a const or let of
\* the function body, so every call owns an activation record of its own:
\* the call of caller c works in frame c.  The statements of concurrent
\* calls are interleaved one group of declarations at a time.
NumCallers == 2
Callers == 1..NumCallers

\* The locals kept by the module and shared by every call.
FrameShared(c) == 1

Frame(c) == c

EmptyFrame == [i |-> Null, eth |-> Null, fr |-> Null, k |-> Null, writers |-> {}]

\* The input records the concurrent callers pass: they differ in the monomer
\* fractions, the temperature and the reactor flag, so in every local.
ConcArgs ==
    { MkInputs(One, One, One, <<1, 1, 1>>, <<SitesA, SitesB>>, One, Rat(7063, 20), 1),
      MkInputs(Num(2), One, One, <<1, 1, 1>>, <<SitesA, SitesB>>, One, Rat(7263, 20), 2) }

\* The statement group of caller c writes the local `field` of its frame.
WriteLocal(c, field, v) ==
    frames' = [frames EXCEPT ![Frame(c)] =
                  [@ EXCEPT ![field] = v, !.writers = @ \cup {c}]]

\* Another call is between its first and its last statement.
InProgress(c) == callers[c].pc \notin {"called", "done"}

\* Caller c runs its next statement group; `overlapped` records that it did
\* so while another call was in progress.
Step(c, from, to, ret) ==
    /\ callers[c].pc = from
    /\ callers' = [callers EXCEPT ![c] =
                     [pc |-> to, arg |-> @.arg, ret |-> ret,
                      overlapped |-> @.overlapped
                                       \/ \E d \in Callers \ {c} : InProgress(d)]]

\* const { hydrogen: H2, ..., reactorFlag } = inputs;
Enter(c) ==
    /\ Step(c, "called", "destructured", Null)
    /\ WriteLocal(c, "i", Destructure(callers[c].arg))
    /\ UNCHANGED <<pageVars, libVars>>

\* let eth; switch (reactorFlag) { ... }
SelectEth(c) ==
    /\ Step(c, "destructured", "eth", Null)
    /\ WriteLocal(c, "eth", Eth(frames[Frame(c)].i.reactorFlag))
    /\ UNCHANGED <<pageVars, libVars>>

\* const totalMonomerConcentration, f1, f2, phi1_1, phi1_2, phi2_1, phi2_2
ComputeFractions(c) ==
    /\ Step(c, "eth", "fractions", Null)
    /\ WriteLocal(c, "fr", Fractions(frames[Frame(c)].i))
    /\ UNCHANGED <<pageVars, libVars>>

\* const kethane = Math.exp(aethane) * Math.exp(-Math.exp(bethane) / T); ...
ComputeConstants(c) ==
    /\ Step(c, "fractions", "constants", Null)
    /\ WriteLocal(c, "k", KineticConstants(frames[Frame(c)].i.T))
    /\ UNCHANGED <<pageVars, libVars>>

\* The pseudo constants, the rates and the returned object literal, computed
\* from the locals of the frame f.
ReturnValue(f) ==
    LET ps == PseudoConstants(f.k, f.fr)
        m == MonomerRates(f.i, f.k, f.fr)
    IN  Outputs(m, HydrogenRate(f.i, f.k, f.eth), CatalystRates(f.i, f.k),
                ActiveSiteRates(f.i, f.k), LivingMomentRates(f.i, ps),
                DeadMomentRates(f.i, ps), EndGroupRates(f.i, f.k),
                PolymerRateGrams(m.RM1, m.RM2, f.i.V), f.i.V)

\* const pseudo_kp_1 = ...; ...; const outputs = { ... }; return outputs;
Return(c) ==
    /\ Step(c, "constants", "done", ReturnValue(frames[Frame(c)]))
    /\ UNCHANGED frames
    /\ UNCHANGED <<pageVars, libVars>>

CallerEnter == \E c \in Callers : Enter(c)
CallerSelectEth == \E c \in Callers : SelectEth(c)
CallerComputeFractions == \E c \in Callers : ComputeFractions(c)
CallerComputeConstants == \E c \in Callers : ComputeConstants(c)
CallerReturn == \E c \in Callers : Return(c)

\* Every caller has made its call, on any argument, and no statement has run.
InitConc ==
    /\ inputs \in AppDefaults
    /\ Fresh
    /\ \E args \in [Callers -> ConcArgs] :
           callers = [c \in Callers |-> [pc |-> "called", arg |-> args[c], ret |-> Null,
                                      overlapped |-> FALSE]]
    /\ frames = [id \in Callers |-> EmptyFrame]
    /\ NoLibraryCall

NextConc ==
    \/ CallerEnter
    \/ CallerSelectEth
    \/ CallerComputeFractions
    \/ CallerComputeConstants
    \/ CallerReturn

SpecConc == InitConc /\ [][NextConc]_vars

\* ------------------------------------------------------------------------
\* The unit converter: convertUnit
\* ------------------------------------------------------------------------

\* enum UnitType, and the units of the three implemented categories.
UnitTypes == {"Pressure", "Temperature", "Mass", "Length", "Volume", "Viscosity"}
PressureUnits == {"bar", "atm", "psi"}
TemperatureUnits == {"C", "K", "F"}
MassUnits == {"kg", "g", "lbm"}
Units == PressureUnits \cup TemperatureUnits \cup MassUnits

\* Conversion factors relative to the base unit (bar, kg).  The decimal
\* literals are taken as the rationals they denote.
pressureFactors ==
    [bar |-> One, atm |-> One // Rat(101325, 100000), psi |-> Rat(1450377, 100000)]
massFactors ==
    [kg |-> One, g |-> Num(1000), lbm |-> Rat(220462, 100000)]

\* The outcome of a call: a thrown Error or a returned number.
Thrown == [threw |-> TRUE, value |-> Null]
Ret(v) == [threw |-> FALSE, value |-> v]

KelvinOffset == Rat(27315, 100)

\* switch (fromUnit): source unit to Kelvin; fromUnit is C, F or K.
ToKelvin(value, fromUnit) ==
    CASE fromUnit = "C" -> value ++ KelvinOffset
      [] fromUnit = "F" -> ((value -- Num(32)) ** (Num(5) // Num(9))) ++ KelvinOffset
      [] fromUnit = "K" -> value

\* Kelvin to Fahrenheit as an offset alone, without the factor 9 / 5.
FromKelvinUnscaled(valueInKelvin, toUnit) ==
    CASE toUnit = "C" -> valueInKelvin -- KelvinOffset
      [] toUnit = "F" -> (valueInKelvin -- KelvinOffset) ++ Num(32)
      [] toUnit = "K" -> valueInKelvin

\* switch (toUnit): Kelvin to the target unit; toUnit is C, F or K.
FromKelvin(valueInKelvin, toUnit) ==
    CASE toUnit = "C" -> valueInKelvin -- KelvinOffset
      [] toUnit = "F" -> ((valueInKelvin -- KelvinOffset) ** (Num(9) // Num(5))) ++ Num(32)
      [] toUnit = "K" -> valueInKelvin

\* The conversion with the pressure factors used for every unit type
\* without a table of its own.
convertUnitPressureByDefault(value, fromUnit, toUnit, unitType) ==
    IF fromUnit = toUnit THEN Ret(value)
    ELSE IF unitType = "Temperature" THEN
        IF fromUnit \notin TemperatureUnits THEN Thrown
        ELSE IF toUnit \notin TemperatureUnits THEN Thrown
        ELSE Ret(FromKelvin(ToKelvin(value, fromUnit), toUnit))
    ELSE LET factors == IF unitType = "Mass" THEN massFactors ELSE pressureFactors
         IN  IF fromUnit \notin DOMAIN factors \/ toUnit \notin DOMAIN factors
             THEN Thrown
             ELSE Ret((value // factors[fromUnit]) ** factors[toUnit])

convertUnit(value, fromUnit, toUnit, unitType) ==
    IF fromUnit = toUnit THEN Ret(value)
    ELSE IF unitType = "Temperature" THEN
        IF fromUnit \notin TemperatureUnits THEN Thrown
        ELSE IF toUnit \notin TemperatureUnits THEN Thrown
        ELSE Ret(FromKelvin(ToKelvin(value, fromUnit), toUnit))
    ELSE IF unitType \notin {"Pressure", "Mass"} THEN Thrown
    ELSE LET factors == IF unitType = "Pressure" THEN pressureFactors ELSE massFactors
         IN  IF fromUnit \notin DOMAIN factors \/ toUnit \notin DOMAIN factors
             THEN Thrown
             ELSE Ret((value // factors[fromUnit]) ** factors[toUnit])

\* The values converted: temperatures as they are, a few amounts of the base
\* unit (bar, kg) expressed in the source unit, and the non-finite numbers.
Amounts == {Zero, One, Num(-40), Num(100), Rat(1, 2)}
UnitValues(fromUnit) ==
    {NaN, PInf, NInf}
      \cup (IF fromUnit \in PressureUnits THEN {k ** pressureFactors[fromUnit] : k \in Amounts}
            ELSE IF fromUnit \in MassUnits THEN {k ** massFactors[fromUnit] : k \in Amounts}
            ELSE Amounts)

\* A caller converts a value, and may convert the result back.
Convert ==
    /\ conversion.stage = "none"
    /\ \E unitType \in UnitTypes, fromUnit \in Units, toUnit \in Units :
         \E value \in UnitValues(fromUnit) :
            conversion' = [stage |-> "converted", value |-> value, fromUnit |-> fromUnit, toUnit |-> toUnit,
                           unitType |-> unitType,
                           out |-> convertUnit(value, fromUnit, toUnit, unitType),
                           back |-> Thrown]
    /\ UNCHANGED <<pageVars, concVars, componentLibrary, calculated>>

ConvertBack ==
    /\ conversion.stage = "converted"
    /\ ~conversion.out.threw
    /\ conversion' = [conversion EXCEPT !.stage = "back", !.back =
                         convertUnit(conversion.out.value, conversion.toUnit,
                                     conversion.fromUnit, conversion.unitType)]
    /\ UNCHANGED <<pageVars, concVars, componentLibrary, calculated>>

InitUnits == inputs \in AppDefaults /\ Fresh /\ NoCallers /\ NoLibraryCall

NextUnits == Convert \/ ConvertBack

SpecUnits == InitUnits /\ [][NextUnits]_vars

\* ------------------------------------------------------------------------
\* Pure-component properties: calculateAllProperties
\* ------------------------------------------------------------------------

\* Property data a further component can bring: intervals with a gap,
\* overlapping intervals, fewer intervals counted than tabulated, arrays
\* without a count, a flag without arrays, arrays without the flag, and
\* empty arrays.
IntervalVariants ==
    { [flag |-> TRUE,  has |-> IntervalFields, count |-> 2,
       tmin |-> <<Num(200), Num(400)>>, tmax |-> <<Num(300), Num(500)>>],
      [flag |-> TRUE,  has |-> IntervalFields, count |-> 2,
       tmin |-> <<Num(200), Num(350)>>, tmax |-> <<Num(500), Num(1500)>>],
      [flag |-> TRUE,  has |-> IntervalFields, count |-> 1,
       tmin |-> <<Num(200), Num(500)>>, tmax |-> <<Num(400), Num(1500)>>],
      [flag |-> TRUE,  has |-> {"T_min", "T_max"}, count |-> 0,
       tmin |-> <<Num(200)>>, tmax |-> <<Num(500)>>],
      [flag |-> TRUE,  has |-> {"interval_count"}, count |-> 1,
       tmin |-> <<>>, tmax |-> <<>>],
      [flag |-> FALSE, has |-> IntervalFields, count |-> 1,
       tmin |-> <<Num(200)>>, tmax |-> <<Num(300)>>],
      [flag |-> TRUE,  has |-> IntervalFields, count |-> 0,
       tmin |-> <<>>, tmax |-> <<>>] }

CorrelationTypes == {"Type1", "Type2", "Type5", "Type6"}

\* The library with one more component added to it.
Libraries ==
    {Library} \cup
    { [ETHYLENE |-> ethylene, HEXENE |-> hexene,
       NITROGEN |-> [ critical_temperature |-> Rat(1262, 10),
                      properties |->
                        [ VaporHeatCapacity |->
                            Coefficients(type, v.flag, v.has, v.count, v.tmin, v.tmax, 2) ],
                      calculated_properties |-> EmptyMap ]] :
        type \in CorrelationTypes, v \in IntervalVariants }

\* The correlation `fn` evaluated at x with the coefficient set `index`: the
\* value stands for itself.  A set beyond the coefficient arrays reads
\* undefined coefficients and yields NaN.
Correlation(fn, x, coeff, index) ==
    IF index >= coeff.sets THEN NaN
    ELSE [k |-> "correlation", fn |-> fn, at |-> x, index |-> index]

calcFunction(type, Tk, Tr, coeff, index) ==
    CASE type = "Type1" -> Correlation("calcPolynomial", Tk, coeff, index)
      [] type = "Type2" -> Correlation("exp calcAntoine", Tk, coeff, index)
      [] type = "Type3" -> Correlation("calcType3", Tk, coeff, index)
      [] type = "Type4" -> Correlation("calcHyperbolic", Tk, coeff, index)
      [] type = "Type5" -> Correlation("calcPuissance", Tr, coeff, index)
      [] type = "Type6" -> Correlation("calcEnthalpy", Tk, coeff, index)
      [] OTHER -> Zero

\* The estimate through the values of the first coefficient set below
\* T_max[0], taken at x: the value stands for itself.
Extrapolation(type, x, ref) == [k |-> "extrapolation", type |-> type, at |-> x, ref |-> ref]

interpolateProperty(T, coeff, component) ==
    IF "T_max" \notin coeff.has \/ Len(coeff.T_max) = 0 THEN Zero
    ELSE LET Tc        == component.critical_temperature
             T_max_ref == coeff.T_max[1]
             Tk3       == T_max_ref ** (Num(17) // Num(16))
             Tr2       == (T_max_ref -- One) // Tc
             near      == DLt(T, Rat(5, 4) ** T_max_ref)
         IN  CASE coeff.correlation_type \in {"Type1", "Type3", "Type4", "Type2"} ->
                    Extrapolation(coeff.correlation_type, IF near THEN T ELSE Tk3, T_max_ref)
               [] coeff.correlation_type = "Type5" ->
                    IF DLe(Tr2, One)
                    THEN Extrapolation("Type5", IF near THEN T // Tc ELSE Tk3 // Tc, T_max_ref)
                    ELSE Zero
               [] OTHER -> Zero

\* The scan that keeps the last interval containing Tk instead of stopping
\* at the first.
RECURSIVE correlationIndexLast(_, _, _)
correlationIndexLast(Tk, propCoeffs, i) ==
    IF i >= propCoeffs.interval_count THEN -1
    ELSE LET rest == correlationIndexLast(Tk, propCoeffs, i + 1)
         IN  IF rest # -1 THEN rest
             ELSE IF /\ i < Len(propCoeffs.T_min) /\ i < Len(propCoeffs.T_max)
                     /\ DLe(propCoeffs.T_min[i + 1], Tk) /\ DLe(Tk, propCoeffs.T_max[i + 1])
                  THEN i ELSE -1

\* for (let i = 0; i < (propCoeffs.interval_count || 0); i++)
\*     if (Tk >= T_min[i] && Tk <= T_max[i]) { correlationIndex = i; break; }
\* from index i on; -1 when the loop ends without a match.  An index beyond
\* an array reads undefined, and no comparison with undefined holds.
RECURSIVE correlationIndex(_, _, _)
correlationIndex(Tk, propCoeffs, i) ==
    IF i >= propCoeffs.interval_count THEN -1
    ELSE IF /\ i < Len(propCoeffs.T_min) /\ i < Len(propCoeffs.T_max)
            /\ DLe(propCoeffs.T_min[i + 1], Tk) /\ DLe(Tk, propCoeffs.T_max[i + 1])
         THEN i
         ELSE correlationIndex(Tk, propCoeffs, i + 1)

\* The body of the loop over the properties of one component: the value
\* stored, and whether the out-of-range message was logged.
calculateProperty(Tk, propCoeffs, component) ==
    LET Tr    == Tk // component.critical_temperature
        index == IF /\ propCoeffs.has_intervals
                    /\ "T_min" \in propCoeffs.has /\ "T_max" \in propCoeffs.has
                 THEN correlationIndex(Tk, [propCoeffs EXCEPT !.interval_count =
                          IF "interval_count" \in propCoeffs.has THEN @ ELSE 0], 0)
                 ELSE 0
    IN  IF index # -1
        THEN [value |-> calcFunction(propCoeffs.correlation_type, Tk, Tr, propCoeffs, index),
              interpolated |-> FALSE]
        ELSE [value |-> interpolateProperty(Tk, propCoeffs, component),
              interpolated |-> TRUE]

\* The Map returned: for every name found in the library, the calculated
\* properties of its clone.
calculateAllProperties(library, componentNames, T) ==
    [ name \in {componentNames[n] : n \in DOMAIN componentNames} \cap DOMAIN library |->
        [ propName \in DOMAIN library[name].properties |->
            calculateProperty(T, library[name].properties[propName], library[name]) ] ]

\* The objects a call works on: the components of the library, the objects
\* the call has created, and the Map `results`, which holds references.  A
\* reference names an object of the library or one created by the call.
CallObjects(library) == [library |-> library, clones |-> <<>>, results |-> EmptyMap]
Deref(st, ref) == IF ref.in = "library" THEN st.library[ref.at] ELSE st.clones[ref.at]

\* The component looked up used as it is, without a copy.
componentCloneShared(st, name) ==
    [ st  |-> [st EXCEPT !.library[name].calculated_properties = EmptyMap],
      ref |-> [in |-> "library", at |-> name] ]

\* componentClone = JSON.parse(JSON.stringify(component)), its properties
\* the library's Map and its calculated_properties a new Map: an object the
\* call creates.
componentClone(st, name) ==
    [ st  |-> [st EXCEPT !.clones =
                  Append(@, [st.library[name] EXCEPT !.calculated_properties = EmptyMap])],
      ref |-> [in |-> "clones", at |-> Len(st.clones) + 1] ]

\* componentClone.calculated_properties.set(propName, value) for every
\* property of the component.
SetCalculated(st, ref, T) ==
    LET component == Deref(st, ref)
        filled == [ propName \in DOMAIN component.properties |->
                      calculateProperty(T, component.properties[propName], component).value ]
    IN  IF ref.in = "library"
        THEN [st EXCEPT !.library[ref.at].calculated_properties = filled]
        ELSE [st EXCEPT !.clones[ref.at].calculated_properties = filled]

\* The loop over componentNames from position n on: a name the library
\* does not hold is skipped, the clone of any other is filled and entered
\* in results under its name.
RECURSIVE calculateAllPropertiesLoop(_, _, _, _)
calculateAllPropertiesLoop(st, componentNames, T, n) ==
    IF n > Len(componentNames)
    THEN st
    ELSE LET name == componentNames[n]
         IN  IF name \notin DOMAIN st.library
             THEN calculateAllPropertiesLoop(st, componentNames, T, n + 1)
             ELSE LET c    == componentClone(st, name)
                      done == SetCalculated(c.st, c.ref, T)
                  IN  calculateAllPropertiesLoop(
                          [done EXCEPT !.results = MapSet(@, name, c.ref)],
                          componentNames, T, n + 1)

\* The arguments of the calls.
ComponentNameLists ==
    { <<>>, <<"ETHYLENE">>, <<"ARGON", "HEXENE">>, <<"NITROGEN", "ETHYLENE", "NITROGEN">> }
PropertyTemperatures ==
    { Num(100), Num(200), Num(350), Num(400), Num(500), Num(1500), Num(2000), NaN }

\* The calls of calculateAllProperties made so far.
MaxPropertyCalls == 2
PropertyCalls == IF calculated.stage = "none" THEN 0 ELSE calculated.calls

\* A call of calculateAllProperties: the library is left as the loop leaves
\* it; the objects the call created and the entries of the Map returned are
\* kept next to the values calculated.
CalculateAll ==
    /\ PropertyCalls < MaxPropertyCalls
    /\ \E componentNames \in ComponentNameLists, T \in PropertyTemperatures :
          LET done == calculateAllPropertiesLoop(CallObjects(componentLibrary),
                                                 componentNames, T, 1)
          IN  /\ calculated' =
                    [stage |-> "returned", calls |-> PropertyCalls + 1,
                     componentNames |-> componentNames, T |-> T,
                     results |-> calculateAllProperties(componentLibrary, componentNames, T),
                     objects |-> done.clones, entries |-> done.results]
              /\ componentLibrary' = done.library
    /\ UNCHANGED <<pageVars, concVars, conversion>>

InitProps ==
    /\ inputs \in AppDefaults
    /\ Fresh
    /\ NoCallers
    /\ conversion = [stage |-> "none"]
    /\ componentLibrary \in Libraries
    /\ calculated = [stage |-> "none"]

NextProps == CalculateAll

SpecProps == InitProps /\ [][NextProps]_vars

\* ------------------------------------------------------------------------
\* Properties
\* ------------------------------------------------------------------------

\* The latest runCalculation returned a record; Out is that record, Args the
\* input record it was computed from, Locals the destructured inputs.
Returned == lastRun.status = "returned"
Out      == heap[outputs]
Args     == lastRun.args
Locals   == Destructure(lastRun.args)

\* A positive, finite temperature.
ValidTemperature(T) == IsFinite(T) /\ Sign(T) > 0

ConcentrationFields ==
    { "hydrogen", "ethylene", "hexene", "catalyst", "cr6", "cocatalyst",
      "activeSites_z0_1", "activeSites_z0_2",
      "livingPolymerEnd_z1_1", "livingPolymerEnd_z1_2",
      "livingPolymerEnd_z2_1", "livingPolymerEnd_z2_2",
      "livingPolymerMoment0_y0_1", "livingPolymerMoment0_y0_2",
      "livingPolymerMoment1_y1_1", "livingPolymerMoment1_y1_2",
      "livingPolymerMoment2_y2_1", "livingPolymerMoment2_y2_2" }

ZeroState(inp) == \A f \in ConcentrationFields : inp[f] = Zero

\* x lies in [0, 1].
InUnit(x) == DLe(Zero, x) /\ DLe(x, One)

\* C1 (as the specification states it): a call whose temperature is zero,
\* negative or not finite raises InvalidTemperature before any constant is
\* evaluated, and hands no rate record to the caller.
C1_InvalidTemperatureRaises ==
    (calls > 0 /\ ~ValidTemperature(Args.temperature))
        => (lastRun.status = "threw" /\ outputs = Null)

\* C1: the case is reached - a call at a temperature that is not valid has ended.
C1_Witness == calls > 0 /\ Args.temperature = Zero

\* C2: at a positive temperature with every concentration zero, f1, f2 and
\* phi1 of both sites are 0, phi2 of both sites is 1 (it is 1 - phi1), none
\* of them is NaN or infinite, and the rates of ethylene, hexene, hydrogen,
\* catalyst, cocatalyst and cr6 are exactly 0.
C2_ZeroState ==
    (Returned /\ ValidTemperature(Args.temperature) /\ ZeroState(Args)) =>
        LET fr == Fractions(Locals)
        IN  /\ fr.f1 = Zero /\ fr.f2 = Zero
            /\ fr.phi1_1 = Zero /\ fr.phi1_2 = Zero
            /\ fr.phi2_1 = One /\ fr.phi2_2 = One
            /\ Out.rateEthylene = Zero /\ Out.rateHexene = Zero
            /\ Out.rateHydrogen = Zero /\ Out.rateCatalyst = Zero
            /\ Out.rateCocatalyst = Zero /\ Out.rateCr6 = Zero

\* C2: a call on the all-zero state at 363.15 K has returned.
C2_Witness ==
    Returned /\ ZeroState(Args) /\ Args.temperature = Rat(7263, 20) /\ Args.volume = Num(2)

\* C2 (as the specification states it): at the zero state every fraction,
\* phi2 of both sites included, is 0 and the six rates are 0.
C2_AllFractionsZero ==
    (Returned /\ ValidTemperature(Args.temperature) /\ ZeroState(Args)) =>
        LET fr == Fractions(Locals)
        IN  /\ \A x \in {fr.f1, fr.f2, fr.phi1_1, fr.phi1_2, fr.phi2_1, fr.phi2_2} : x = Zero
            /\ Out.rateEthylene = Zero /\ Out.rateHexene = Zero
            /\ Out.rateHydrogen = Zero /\ Out.rateCatalyst = Zero
            /\ Out.rateCocatalyst = Zero /\ Out.rateCr6 = Zero

\* C3: for non-negative concentrations f1 and f2 lie in [0, 1] and
\* f1 + f2 = (M1 + M2) / (M1 + M2 + eps): 0 when M1 = M2 = 0, and otherwise
\* short of 1 by at most eps / (M1 + M2).  For each site phi1 and phi2 lie
\* in [0, 1] and phi1 + phi2 = 1, the case N1 = N2 = 0 included.
C3_FractionsSum ==
    Returned =>
        LET fr  == Fractions(Locals)
            Mt  == Locals.M1 ++ Locals.M2
            sum == fr.f1 ++ fr.f2
        IN  /\ InUnit(fr.f1) /\ InUnit(fr.f2)
            /\ sum = Mt // (Mt ++ Eps)
            /\ Mt = Zero => sum = Zero
            /\ DLe((One -- sum) ** Mt, Eps)
            /\ InUnit(fr.phi1_1) /\ InUnit(fr.phi2_1) /\ fr.phi1_1 ++ fr.phi2_1 = One
            /\ InUnit(fr.phi1_2) /\ InUnit(fr.phi2_2) /\ fr.phi1_2 ++ fr.phi2_2 = One

\* C3: a call with no monomer, no living chain end on site 1 and chain
\* ends on site 2 has returned.
C3_Witness ==
    /\ Returned
    /\ Args.ethylene = Zero /\ Args.hexene = Zero
    /\ Args.livingPolymerEnd_z1_1 = Zero /\ Args.livingPolymerEnd_z2_1 = Zero
    /\ Args.livingPolymerEnd_z1_2 = One

\* C3 (as the specification states it): f1 + f2 is 1 within the tolerance
\* eps for every non-negative M1 and M2, M1 = M2 = 0 included.
C3_MonomerFractionsSumToOne ==
    Returned =>
        LET fr == Fractions(Locals)
        IN  /\ InUnit(fr.f1) /\ InUnit(fr.f2)
            /\ DLe(One -- (fr.f1 ++ fr.f2), Eps)
            /\ DLe((fr.f1 ++ fr.f2) -- One, Eps)

\* C4: for a valid temperature and V # 0 the polymer production rate is
\* -(28 * rateEthylene + 84 * rateHexene): the volume enters it once, as it
\* enters the two monomer rates.
C4_MassBalance ==
    (Returned /\ ValidTemperature(Args.temperature) /\ Args.volume # Zero) =>
        LET V   == Args.volume
            RM1 == Out.rateEthylene // V
            RM2 == Out.rateHexene // V
        IN  /\ Out.polymerProductionRate
                 = DNeg(Num(28) ** Out.rateEthylene ++ Num(84) ** Out.rateHexene)
            /\ Out.polymerProductionRate
                 = (DNeg(RM1) ** Num(28) ++ DNeg(RM2) ** Num(84)) ** V

\* C4: a call with volume 2 in which both monomers are consumed has returned.
C4_Witness ==
    /\ Returned /\ Args.volume = Num(2) /\ Args.temperature = Rat(7263, 20)
    /\ Sign(Out.rateEthylene) < 0 /\ Sign(Out.rateHexene) < 0
    /\ Sign(Out.polymerProductionRate) > 0

\* C5: the ethane term of the hydrogen rate is kethane * H2 * eth with eth
\* 5.34329, 1.13724, 0.318066, 0.456617 for reactor flags 1 to 4 and 0 for
\* any other flag; a call with another flag returns, and its record is the
\* record of the same inputs with the term left out.
C5_ReactorFlag ==
    /\ (calls > 0 /\ Args.reactorFlag \notin 1..4) => Returned
    /\ (Returned /\ ValidTemperature(Args.temperature)) =>
        LET k    == KineticConstants(Locals.T)
            base == HydrogenRate(Locals, k, Zero)
            e    == CASE Args.reactorFlag = 1 -> Rat(534329, 100000)
                      [] Args.reactorFlag = 2 -> Rat(113724, 100000)
                      [] Args.reactorFlag = 3 -> Rat(318066, 1000000)
                      [] Args.reactorFlag = 4 -> Rat(456617, 1000000)
                      [] OTHER -> Zero
        IN  /\ Out.rateHydrogen = (base -- k.kethane ** Locals.H2 ** e) ** Locals.V
            /\ Args.reactorFlag \notin 1..4 =>
                 Out = [calculateReactionRates([Args EXCEPT !.reactorFlag = 1])
                           EXCEPT !.rateHydrogen = base ** Locals.V]

\* C5: a call with an unknown flag, hydrogen present and a non-zero kethane
\* has returned, and so has one in reactor 3.
C5_Witness ==
    /\ Returned /\ Args.hydrogen = One /\ Args.volume = Num(2)
    /\ Args.temperature = Rat(7263, 20)
    /\ Sign(KineticConstants(Args.temperature).kethane) > 0
    /\ Args.reactorFlag \in {3, 99}
\* C7: a call with finite, non-negative concentrations and a positive
\* temperature never throws: it returns a record holding every field of
\* ZieglerModelOutputs, each of them a number.
C7_NeverThrows ==
    (/\ calls > 0
     /\ ValidTemperature(Args.temperature)
     /\ \A f \in ConcentrationFields : IsFinite(Args[f]) /\ Sign(Args[f]) >= 0)
        => /\ Returned
           /\ outputs \in DOMAIN heap
           /\ DOMAIN Out = OutputFields
           /\ \A f \in OutputFields : Out[f].k \in {"fin", "nan", "pinf", "ninf"}

\* C7: a call without any monomer, the division guarded by 1E-25, has returned.
C7_Witness ==
    /\ Returned /\ ValidTemperature(Args.temperature)
    /\ Args.ethylene = Zero /\ Args.hexene = Zero /\ DOMAIN Out = OutputFields

\* C8: a call leaves the input object as it was, returns a record that no
\* earlier call returned, computed from the inputs of this call alone, and
\* leaves the records of earlier calls as they were.
C8_CallFrame ==
    [][ calls' # calls =>
          /\ inputs' = inputs
          /\ lastRun'.status = "returned" =>
               /\ outputs' \in DOMAIN heap' \ DOMAIN heap
               /\ heap'[outputs'] = calculateReactionRates(inputs)
               /\ \A r \in DOMAIN heap : heap'[r] = heap[r] ]_vars

\* C8: two calls on different inputs have returned different records, both
\* still held.
C8_Witness == calls >= 2 /\ Len(heap) >= 2 /\ outputs = 2 /\ heap[1] # heap[2]

\* The rate of change of every tracked species per litre (mol/L/h), under
\* the name of its output field.
ConcentrationRates(inp) ==
    LET i    == Destructure(inp)
        k    == KineticConstants(i.T)
        fr   == Fractions(i)
        ps   == PseudoConstants(k, fr)
        m    == MonomerRates(i, k, fr)
        cat  == CatalystRates(i, k)
        site == ActiveSiteRates(i, k)
        liv  == LivingMomentRates(i, ps)
        dead == DeadMomentRates(i, ps)
        end  == EndGroupRates(i, k)
    IN  [ rateEthylene |-> m.RM1,
          rateHexene |-> m.RM2,
          rateHydrogen |-> HydrogenRate(i, k, Eth(i.reactorFlag)),
          rateCatalyst |-> cat.RS,
          rateCocatalyst |-> cat.RC,
          rateCr6 |-> cat.RS1,
          rateActiveSites_z0_1 |-> site.RN0_1,
          rateActiveSites_z0_2 |-> site.RN0_2,
          rateLivingPolymerMoment0_y0_1 |-> liv.RY0_1,
          rateLivingPolymerMoment0_y0_2 |-> liv.RY0_2,
          rateLivingPolymerMoment1_y1_1 |-> liv.RY1_1,
          rateLivingPolymerMoment1_y1_2 |-> liv.RY1_2,
          rateLivingPolymerMoment2_y2_1 |-> liv.RY2_1,
          rateLivingPolymerMoment2_y2_2 |-> liv.RY2_2,
          rateDeadPolymerMoment0_x0_1 |-> dead.Rx0_1,
          rateDeadPolymerMoment0_x0_2 |-> dead.Rx0_2,
          rateDeadPolymerMoment1_x1_1 |-> dead.Rx1_1,
          rateDeadPolymerMoment1_x1_2 |-> dead.Rx1_2,
          rateDeadPolymerMoment2_x2_1 |-> dead.Rx2_1,
          rateDeadPolymerMoment2_x2_2 |-> dead.Rx2_2,
          rateLivingPolymerEnd_z1_1 |-> end.RN1_1,
          rateLivingPolymerEnd_z1_2 |-> end.RN1_2,
          rateLivingPolymerEnd_z2_1 |-> end.RN2_1,
          rateLivingPolymerEnd_z2_2 |-> end.RN2_2 ]

\* C9: for a valid temperature the record holds, for every tracked species,
\* one field, and that field is the absolute rate R * V; the rate R per
\* litre is not a field of the record.
C9_AbsoluteRatesOnly ==
    (Returned /\ ValidTemperature(Args.temperature)) =>
        LET R == ConcentrationRates(Args)
        IN  /\ DOMAIN R \subseteq DOMAIN Out
            /\ \A f \in DOMAIN R : Out[f] = R[f] ** Args.volume
            /\ DOMAIN Out = OutputFields

\* C9: a call with volume 2 and a non-zero ethylene rate has returned.
C9_Witness ==
    /\ Returned /\ Args.volume = Num(2) /\ Args.temperature = Rat(7263, 20)
    /\ Out.rateEthylene = ConcentrationRates(Args).rateEthylene ** Num(2)
    /\ Sign(Out.rateEthylene) < 0

\* C9 (as the specification states it): for every tracked species the record
\* holds the rate per litre and the absolute rate.
C9_BothBases ==
    (Returned /\ ValidTemperature(Args.temperature)) =>
        LET R == ConcentrationRates(Args)
        IN  \A f \in DOMAIN R :
               /\ \E g \in DOMAIN Out : Out[g] = R[f] ** Args.volume
               /\ \E g \in DOMAIN Out : Out[g] = R[f]

\* Both monomers, both kinds of active site and the zeroth living moments
\* of both sites are present, in a positive volume at a valid temperature.
PositiveState(inp) ==
    /\ ValidTemperature(inp.temperature)
    /\ \A f \in {"ethylene", "hexene", "volume", "activeSites_z0_1", "activeSites_z0_2",
                 "livingPolymerMoment0_y0_1", "livingPolymerMoment0_y0_2"} :
          IsFinite(inp[f]) /\ Sign(inp[f]) > 0

\* C10: on a positive state at a temperature of 1 K or more every output is
\* finite, rateEthylene and rateHexene are negative and the polymer
\* production rate is positive.
C10_PositiveStateAbove1K ==
    (Returned /\ PositiveState(Args) /\ DLe(One, Args.temperature)) =>
        /\ \A f \in DOMAIN Out : IsFinite(Out[f])
        /\ Sign(Out.rateEthylene) < 0
        /\ Sign(Out.rateHexene) < 0
        /\ Sign(Out.polymerProductionRate) > 0

\* C10: a call on the page's default inputs at 363.15 K has returned.
C10_Witness ==
    /\ Returned /\ Args \in AppDefaults /\ Args.temperature = Rat(7263, 20)
    /\ Sign(Out.polymerProductionRate) > 0

\* C10 (as the specification states it): the same on every positive state,
\* whatever the positive temperature.
C10_PositiveState ==
    (Returned /\ PositiveState(Args)) =>
        /\ \A f \in DOMAIN Out : IsFinite(Out[f])
        /\ Sign(Out.rateEthylene) < 0
        /\ Sign(Out.rateHexene) < 0
        /\ Sign(Out.polymerProductionRate) > 0

\* C11: for valid temperatures T1 < T2 no constant is smaller at T2 than at
\* T1, and every constant is finite and not negative; a constant whose
\* factor exp(-exp(b)/T) underflows at T2 is exactly 0 at both temperatures,
\* so the increase is not strict.
C11_ConstantsNonDecreasing ==
    (Returned /\ ValidTemperature(Args.temperature)) =>
        \A T2 \in ValidTemperatures :
            DLt(Args.temperature, T2) =>
                LET k1 == KineticConstants(Args.temperature)
                    k2 == KineticConstants(T2)
                IN  \A name \in DOMAIN KineticParameters :
                       /\ IsFinite(k1[name]) /\ Sign(k1[name]) >= 0
                       /\ DLe(k1[name], k2[name])
                       /\ k2[name] = Zero => k1[name] = Zero

\* C11: a call at 353.15 K has returned; ki2_1 is 0 there and at 363.15 K,
\* and ka is larger at 363.15 K than at 1 K.
C11_Witness ==
    /\ Returned /\ Args.temperature = Rat(7063, 20)
    /\ KineticConstants(Args.temperature).ki2_1 = Zero
    /\ KineticConstants(Rat(7263, 20)).ki2_1 = Zero
    /\ DLt(KineticConstants(One).ka, KineticConstants(Args.temperature).ka)

\* C11 (as the specification states it, up to the resolution of the exp
\* grid): for valid temperatures T1 < T2 every constant is larger at T2 than
\* at T1, or positive and on the same step of the grid.
C11_ConstantsStrictlyIncreasing ==
    (Returned /\ ValidTemperature(Args.temperature)) =>
        \A T2 \in ValidTemperatures :
            DLt(Args.temperature, T2) =>
                LET k1 == KineticConstants(Args.temperature)
                    k2 == KineticConstants(T2)
                IN  \A name \in DOMAIN KineticParameters :
                       \/ DLt(k1[name], k2[name])
                       \/ k1[name] = k2[name] /\ Sign(k1[name]) > 0

\* The reactor flag after flag in the cycle 1, 2, 3, 4, 99, 1.
OtherFlag(flag) ==
    CASE flag = 1 -> 2 [] flag = 2 -> 3 [] flag = 3 -> 4 [] flag = 4 -> 99 [] OTHER -> 1

\* C12: at a valid temperature the record of a call and the record of the
\* same inputs with another reactor flag agree in every field but
\* rateHydrogen, and the two hydrogen rates differ by
\* -kethane * H2 * (eth - eth') * V.
C12_FlagOnlyThroughEth ==
    (Returned /\ ValidTemperature(Args.temperature)) =>
        LET flag2 == OtherFlag(Args.reactorFlag)
            out2  == calculateReactionRates([Args EXCEPT !.reactorFlag = flag2])
            k     == KineticConstants(Locals.T)
        IN  /\ \A f \in OutputFields \ {"rateHydrogen"} : Out[f] = out2[f]
            /\ Out.rateHydrogen -- out2.rateHydrogen
                 = DNeg(k.kethane) ** Locals.H2
                     ** (Eth(Args.reactorFlag) -- Eth(flag2)) ** Locals.V

\* C12: a call in reactor 4 with hydrogen, catalyst species and living
\* chains present has returned, and its hydrogen rate is not the one of
\* the unknown reactor 99.
C12_Witness ==
    /\ Returned /\ Args.reactorFlag = 4 /\ Args.hydrogen = One /\ Args.volume = Num(2)
    /\ Args.temperature = Rat(7263, 20) /\ Args.cr6 = One
    /\ Args.livingPolymerMoment0_y0_1 = Num(2)
    /\ Out.rateHydrogen # calculateReactionRates([Args EXCEPT !.reactorFlag = 99]).rateHydrogen
\* C13: calls of calculateReactionRates made by different callers, their
\* statements interleaved in any order and without synchronization, each
\* return exactly the record the same call returns when it runs alone, and
\* no activation record is ever written by more than one call.
C13_ConcurrentCallsIndependent ==
    /\ \A c \in DOMAIN callers :
           callers[c].pc = "done" =>
               callers[c].ret = calculateReactionRates(callers[c].arg)
    /\ \A id \in DOMAIN frames : Cardinality(frames[id].writers) <= 1

\* Two calls on different arguments have overlapped and both have returned,
\* with different records.
C13_Witness ==
    /\ callers # <<>>
    /\ callers[1].pc = "done" /\ callers[2].pc = "done"
    /\ callers[1].overlapped /\ callers[2].overlapped
    /\ callers[1].arg # callers[2].arg
    /\ callers[1].ret # callers[2].ret
\* C16: the hydrogen consumed by transfer to hydrogen balances the living
\* chains lost by it: for every call at a valid temperature
\* RH2 = -(Y0_1*H2*pseudo_ktH_1 + Y0_2*H2*pseudo_ktH_2) - kaH*H2*S1
\*       - kethane*H2*eth, with the phi-weighted pseudo_ktH_j of the living
\* zeroth moment; rateHydrogen is RH2*V.
C16_HydrogenTransferBalanced ==
    (Returned /\ ValidTemperature(Args.temperature)) =>
        LET i   == Locals
            k   == KineticConstants(i.T)
            ps  == PseudoConstants(k, Fractions(i))
            eth == Eth(i.reactorFlag)
        IN  Out.rateHydrogen
              = (DNeg(i.Y0_1 ** i.H2 ** ps.pseudo_ktH_1 ++ i.Y0_2 ** i.H2 ** ps.pseudo_ktH_2)
                   -- k.kaH ** i.H2 ** i.S1 -- k.kethane ** i.H2 ** eth) ** i.V

\* A call at 353.15 K with hydrogen and living chains on site 1, ending in
\* both monomers, where ktH2_1 is positive (ktH1_1 underflows to 0): the
\* hydrogen rate consumes more hydrogen than the living zeroth moments lose
\* chains to it.
C16_Witness ==
    /\ Returned
    /\ Args.temperature = Rat(7063, 20)
    /\ Args.hydrogen = One /\ Args.volume = One
    /\ Args.livingPolymerMoment0_y0_1 = One
    /\ LET i  == Locals
           k  == KineticConstants(i.T)
           ps == PseudoConstants(k, Fractions(i))
       IN  /\ Sign(k.ktH2_1) > 0
           /\ Sign(Fractions(i).phi1_1) > 0
           /\ DLt(Out.rateHydrogen,
                  (DNeg(i.Y0_1 ** i.H2 ** ps.pseudo_ktH_1 ++ i.Y0_2 ** i.H2 ** ps.pseudo_ktH_2)
                     -- k.kaH ** i.H2 ** i.S1 -- k.kethane ** i.H2 ** Eth(i.reactorFlag)) ** i.V)
\* x lies between a and b, in either order.
Between(x, a, b) == (DLe(a, x) /\ DLe(x, b)) \/ (DLe(b, x) /\ DLe(x, a))

\* The four-term pseudo constant k11*f1*phi1 + k21*f1*phi2 + k22*f2*phi2
\* + k12*phi1*f2 and the two-term one k1*phi1 + k2*phi2.
MonomerWeighted(k11, k21, k22, k12, f1, f2, phi1, phi2) ==
    k11 ** f1 ** phi1 ++ k21 ** f1 ** phi2 ++ k22 ** f2 ** phi2 ++ k12 ** phi1 ** f2
EndWeighted(k1, k2, phi1, phi2) == k1 ** phi1 ++ k2 ** phi2

\* C17: for every call at a valid temperature and each site j, pseudo_kp_j
\* and pseudo_kt_j are the f- and phi-weighted sums of their four constants,
\* pseudo_ktH_j and pseudo_kte_j are the phi-weighted sums of their two
\* constants with no f weighting, so that replacing only M1 and M2 by any
\* other concentrations leaves pseudo_ktH_j and pseudo_kte_j unchanged, and
\* each of them lies between its two underlying constants.
C17_PseudoConstants ==
    (Returned /\ ValidTemperature(Args.temperature)) =>
        LET i  == Locals
            k  == KineticConstants(i.T)
            fr == Fractions(i)
            ps == PseudoConstants(k, fr)
        IN  /\ ps.pseudo_kp_1 = MonomerWeighted(k.kp11_1, k.kp21_1, k.kp22_1, k.kp12_1, fr.f1, fr.f2, fr.phi1_1, fr.phi2_1)
            /\ ps.pseudo_kp_2 = MonomerWeighted(k.kp11_2, k.kp21_2, k.kp22_2, k.kp12_2, fr.f1, fr.f2, fr.phi1_2, fr.phi2_2)
            /\ ps.pseudo_kt_1 = MonomerWeighted(k.kt11_1, k.kt21_1, k.kt22_1, k.kt12_1, fr.f1, fr.f2, fr.phi1_1, fr.phi2_1)
            /\ ps.pseudo_kt_2 = MonomerWeighted(k.kt11_2, k.kt21_2, k.kt22_2, k.kt12_2, fr.f1, fr.f2, fr.phi1_2, fr.phi2_2)
            /\ ps.pseudo_ktH_1 = EndWeighted(k.ktH1_1, k.ktH2_1, fr.phi1_1, fr.phi2_1)
            /\ ps.pseudo_ktH_2 = EndWeighted(k.ktH1_2, k.ktH2_2, fr.phi1_2, fr.phi2_2)
            /\ ps.pseudo_kte_1 = EndWeighted(k.kte1_1, k.kte2_1, fr.phi1_1, fr.phi2_1)
            /\ ps.pseudo_kte_2 = EndWeighted(k.kte1_2, k.kte2_2, fr.phi1_2, fr.phi2_2)
            /\ \A M1 \in Conc, M2 \in Conc :
                  LET ps2 == PseudoConstants(k, Fractions([i EXCEPT !.M1 = M1, !.M2 = M2]))
                  IN  /\ ps2.pseudo_ktH_1 = ps.pseudo_ktH_1
                      /\ ps2.pseudo_ktH_2 = ps.pseudo_ktH_2
                      /\ ps2.pseudo_kte_1 = ps.pseudo_kte_1
                      /\ ps2.pseudo_kte_2 = ps.pseudo_kte_2
            /\ Between(ps.pseudo_ktH_1, k.ktH1_1, k.ktH2_1)
            /\ Between(ps.pseudo_ktH_2, k.ktH1_2, k.ktH2_2)
            /\ Between(ps.pseudo_kte_1, k.kte1_1, k.kte2_1)
            /\ Between(ps.pseudo_kte_2, k.kte1_2, k.kte2_2)

\* A call at 353.15 K with unequal monomer concentrations and living chains
\* of site 1 ending in both monomers: pseudo_ktH_1 lies strictly between
\* ktH1_1 and ktH2_1, and pseudo_kp_2 and pseudo_kt_1 are positive.
C17_Witness ==
    /\ Returned
    /\ Args.temperature = Rat(7063, 20)
    /\ Args.ethylene = Num(2) /\ Args.hexene = One
    /\ LET i  == Locals
           k  == KineticConstants(i.T)
           fr == Fractions(i)
           ps == PseudoConstants(k, fr)
       IN  /\ Sign(fr.phi1_1) > 0 /\ Sign(fr.phi2_1) > 0
           /\ DLt(k.ktH1_1, ps.pseudo_ktH_1) /\ DLt(ps.pseudo_ktH_1, k.ktH2_1)
           /\ Sign(ps.pseudo_kp_2) > 0 /\ Sign(ps.pseudo_kt_1) > 0
\* C18: for every call at a valid temperature rateCatalyst and
\* rateCocatalyst are both -(ka + kaa)*S*c*V, and rateCr6 is
\* (kaa*c*S - kaH*H2*S1)*V: cr6 is produced by the kaa activation path only
\* and consumed by the hydrogen activation path only.
C18_CatalystRates ==
    (Returned /\ ValidTemperature(Args.temperature)) =>
        LET i == Locals
            k == KineticConstants(i.T)
        IN  /\ Out.rateCatalyst = DNeg(k.ka ++ k.kaa) ** i.S ** i.c ** i.V
            /\ Out.rateCocatalyst = Out.rateCatalyst
            /\ Out.rateCr6 = (k.kaa ** i.c ** i.S -- k.kaH ** i.H2 ** i.S1) ** i.V

\* A call at 363.15 K in 2 L with catalyst, cocatalyst, cr6 and hydrogen
\* present: catalyst and cocatalyst are consumed, and both terms of the cr6
\* rate are at work.
C18_Witness ==
    /\ Returned
    /\ Args.temperature = Rat(7263, 20)
    /\ Args.volume = Num(2) /\ Args.hydrogen = One
    /\ Args.catalyst = One /\ Args.cr6 = One /\ Args.cocatalyst = One
    /\ Sign(Out.rateCatalyst) < 0
    /\ Out.rateCr6 # (KineticConstants(Locals.T).kaa ** Locals.c ** Locals.S) ** Locals.V
    /\ Out.rateCr6 # DNeg(KineticConstants(Locals.T).kaH ** Locals.H2 ** Locals.S1) ** Locals.V
\* The activation flux ka*S*c + kaH*H2*S1 shared out between the two sites.
ActivationFlux(i, k) == k.ka ** i.S ** i.c ++ k.kaH ** i.H2 ** i.S1

\* The locals with every living-chain end-group and moment set to v.
WithLivingChains(i, v) ==
    [i EXCEPT !.N1_1 = v, !.N1_2 = v, !.N2_1 = v, !.N2_2 = v,
              !.Y0_1 = v, !.Y0_2 = v, !.Y1_1 = v, !.Y1_2 = v,
              !.Y2_1 = v, !.Y2_2 = v]

\* C19: for every call at a valid temperature and each site j,
\* RN0_j = teta_j*(ka*S*c + kaH*H2*S1) - N0_j*(ki1_j*M1 + ki2_j*M2) with
\* teta1 = 0.624963 and teta2 = 1 - teta1 (rateActiveSites_z0_j is RN0_j*V);
\* the two replenishment terms sum to the whole activation flux; and RN0_j
\* is the same whatever the living-chain end-groups and moments are.
C19_ActiveSiteRates ==
    (Returned /\ ValidTemperature(Args.temperature)) =>
        LET i    == Locals
            k    == KineticConstants(i.T)
            flux == ActivationFlux(i, k)
            dep1 == i.N0_1 ** (k.ki1_1 ** i.M1 ++ k.ki2_1 ** i.M2)
            dep2 == i.N0_2 ** (k.ki1_2 ** i.M1 ++ k.ki2_2 ** i.M2)
        IN  /\ teta1 = Rat(624963, 1000000)
            /\ teta2 = One -- teta1
            /\ Out.rateActiveSites_z0_1 = (teta1 ** flux -- dep1) ** i.V
            /\ Out.rateActiveSites_z0_2 = (teta2 ** flux -- dep2) ** i.V
            /\ teta1 ** flux ++ teta2 ** flux = flux
            /\ (Out.rateActiveSites_z0_1 ++ dep1 ** i.V)
                 ++ (Out.rateActiveSites_z0_2 ++ dep2 ** i.V) = flux ** i.V
            /\ \A v \in {Zero, Num(3)} :
                  LET r == ActiveSiteRates(WithLivingChains(i, v), k)
                  IN  /\ r.RN0_1 ** i.V = Out.rateActiveSites_z0_1
                      /\ r.RN0_2 ** i.V = Out.rateActiveSites_z0_2

\* A call at 353.15 K with catalyst, cocatalyst, cr6, hydrogen, ethylene and
\* sites and living chains of both types: the flux is positive, site 1 is
\* both replenished and depleted, and the living chains are neither all 0
\* nor all 3.
C19_Witness ==
    /\ Returned
    /\ Args.temperature = Rat(7063, 20)
    /\ Args.volume = One /\ Args.hydrogen = One /\ Args.ethylene = One
    /\ Args.catalyst = One /\ Args.cr6 = One /\ Args.cocatalyst = One
    /\ Args.activeSites_z0_1 = One
    /\ Args.livingPolymerMoment0_y0_1 = Num(2)
    /\ LET k == KineticConstants(Locals.T)
       IN  /\ Sign(ActivationFlux(Locals, k)) > 0
           /\ Sign(k.ki1_1) > 0
           /\ DLt(Out.rateActiveSites_z0_1, teta1 ** ActivationFlux(Locals, k))
\* C20: for every call at a valid temperature and each site j, with
\* Mt = M1 + M2: RY0_j = N0_j*Mt*pseudo_ki_j - Y0_j*pseudo_kte_j
\* - Y0_j*H2*pseudo_ktH_j; RY1_j and RY2_j hold the same initiation gain
\* plus Mt*Y0_j*(pseudo_kp_j + pseudo_kt_j); RY2_j alone holds the further
\* gain 2*Mt*pseudo_kp_j*Y1_j; and RYk_j (k = 1, 2) subtracts
\* Yk_j*(Mt*pseudo_kt_j + H2*pseudo_ktH_j + pseudo_kte_j).  The returned
\* rateLivingPolymerMomentk_yk_j is RYk_j*V.
C20_LivingMoments ==
    (Returned /\ ValidTemperature(Args.temperature)) =>
        LET i     == Locals
            k     == KineticConstants(i.T)
            ps    == PseudoConstants(k, Fractions(i))
            Mt    == i.M1 ++ i.M2
            init1 == i.N0_1 ** Mt ** ps.pseudo_ki_1
            init2 == i.N0_2 ** Mt ** ps.pseudo_ki_2
            grow1 == Mt ** i.Y0_1 ** (ps.pseudo_kp_1 ++ ps.pseudo_kt_1)
            grow2 == Mt ** i.Y0_2 ** (ps.pseudo_kp_2 ++ ps.pseudo_kt_2)
            loss1 == Mt ** ps.pseudo_kt_1 ++ i.H2 ** ps.pseudo_ktH_1 ++ ps.pseudo_kte_1
            loss2 == Mt ** ps.pseudo_kt_2 ++ i.H2 ** ps.pseudo_ktH_2 ++ ps.pseudo_kte_2
        IN  /\ Out.rateLivingPolymerMoment0_y0_1
                 = (init1 -- i.Y0_1 ** ps.pseudo_kte_1 -- i.Y0_1 ** i.H2 ** ps.pseudo_ktH_1) ** i.V
            /\ Out.rateLivingPolymerMoment0_y0_2
                 = (init2 -- i.Y0_2 ** ps.pseudo_kte_2 -- i.Y0_2 ** i.H2 ** ps.pseudo_ktH_2) ** i.V
            /\ Out.rateLivingPolymerMoment1_y1_1 = (init1 ++ grow1 -- i.Y1_1 ** loss1) ** i.V
            /\ Out.rateLivingPolymerMoment1_y1_2 = (init2 ++ grow2 -- i.Y1_2 ** loss2) ** i.V
            /\ Out.rateLivingPolymerMoment2_y2_1
                 = (init1 ++ grow1 ++ Num(2) ** Mt ** ps.pseudo_kp_1 ** i.Y1_1 -- i.Y2_1 ** loss1) ** i.V
            /\ Out.rateLivingPolymerMoment2_y2_2
                 = (init2 ++ grow2 ++ Num(2) ** Mt ** ps.pseudo_kp_2 ** i.Y1_2 -- i.Y2_2 ** loss2) ** i.V

\* A call at 353.15 K with both monomers, hydrogen, vacant sites and living
\* chains of site 2 with Y1_2 = 2 and Y2_2 = 4: initiation, propagation and
\* the loss by transfer are all at work on site 2, and the second moment
\* carries the gain 2*Mt*pseudo_kp_2*Y1_2.
C20_Witness ==
    /\ Returned
    /\ Args.temperature = Rat(7063, 20)
    /\ Args.volume = One /\ Args.hydrogen = One
    /\ Args.ethylene = One /\ Args.hexene = One
    /\ Args.livingPolymerMoment1_y1_2 = Num(2)
    /\ Args.livingPolymerMoment2_y2_2 = Num(4)
    /\ LET i  == Locals
           ps == PseudoConstants(KineticConstants(i.T), Fractions(i))
       IN  /\ Sign(i.N0_2 ** ps.pseudo_ki_2) > 0
           /\ Sign(ps.pseudo_kp_2) > 0
           /\ Sign(i.H2 ** ps.pseudo_ktH_2 ++ ps.pseudo_kte_2 ++ ps.pseudo_kt_2) > 0
           /\ Out.rateLivingPolymerMoment2_y2_2 # Out.rateLivingPolymerMoment1_y1_2
\* The units of an implemented unit type.
UnitsOf(unitType) ==
    CASE unitType = "Pressure" -> PressureUnits
      [] unitType = "Temperature" -> TemperatureUnits
      [] unitType = "Mass" -> MassUnits
      [] OTHER -> {}

\* C15: for a value v and two units a, b of one implemented unit type t
\* (Pressure, Mass, Temperature), convertUnit(v, a, b, t) returns, and
\* converting its result back from b to a returns v again (a non-finite v
\* comes back as the same non-finite value); and convertUnit(v, a, a, t)
\* returns v unchanged.
C15_RoundTrip ==
    (/\ conversion.stage # "none"
     /\ conversion.fromUnit \in UnitsOf(conversion.unitType)
     /\ conversion.toUnit \in UnitsOf(conversion.unitType)) =>
        /\ ~conversion.out.threw
        /\ conversion.fromUnit = conversion.toUnit => conversion.out.value = conversion.value
        /\ conversion.stage = "back" =>
              /\ ~conversion.back.threw
              /\ conversion.back.value = conversion.value

\* 100 bar expressed in atm has been converted to psi - a different number -
\* and back to atm.
C15_Witness ==
    /\ conversion.stage = "back"
    /\ conversion.unitType = "Pressure"
    /\ conversion.fromUnit = "atm" /\ conversion.toUnit = "psi"
    /\ conversion.value = Num(100) ** pressureFactors.atm
    /\ conversion.out.value = Num(100) ** pressureFactors.psi
    /\ conversion.out.value # conversion.value
    /\ conversion.back.value = conversion.value
\* The property has intervals: the flag is set and both bound arrays exist.
HasIntervals(p) == p.has_intervals /\ "T_min" \in p.has /\ "T_max" \in p.has

\* The indices i < interval_count whose interval contains T.
Containing(T, p) ==
    { i \in 0..((IF "interval_count" \in p.has THEN p.interval_count ELSE 0) - 1) :
        /\ i < Len(p.T_min) /\ i < Len(p.T_max)
        /\ DLe(p.T_min[i + 1], T) /\ DLe(T, p.T_max[i + 1]) }

Lowest(S) == CHOOSE i \in S : \A j \in S : i <= j

\* C14: calculateAllProperties evaluates every property of every component
\* it finds at T with the coefficient set of the first interval
\* i < interval_count with T_min[i] <= T <= T_max[i]; with coefficient set 0
\* when the property has no intervals; and through interpolateProperty
\* exactly when the property has intervals and none of them contains T.
C14_CoefficientSet ==
    calculated.stage = "returned" =>
        /\ DOMAIN calculated.results
             = {calculated.componentNames[n] : n \in DOMAIN calculated.componentNames}
                 \cap DOMAIN componentLibrary
        /\ \A name \in DOMAIN calculated.results :
             \A propName \in DOMAIN componentLibrary[name].properties :
                LET component == componentLibrary[name]
                    p  == component.properties[propName]
                    r  == calculated.results[name][propName]
                    T  == calculated.T
                    Tr == T // component.critical_temperature
                    hits == Containing(T, p)
                IN  /\ (HasIntervals(p) /\ hits # {}) =>
                          /\ ~r.interpolated
                          /\ r.value = calcFunction(p.correlation_type, T, Tr, p, Lowest(hits))
                    /\ ~HasIntervals(p) =>
                          /\ ~r.interpolated
                          /\ r.value = calcFunction(p.correlation_type, T, Tr, p, 0)
                    /\ r.interpolated <=> (HasIntervals(p) /\ hits = {})
                    /\ r.interpolated => r.value = interpolateProperty(T, p, component)

\* A call at 500 K for ETHYLENE and a third component: 500 K lies in both
\* intervals of ethylene's heat capacity, which is evaluated with set 0; its
\* viscosity has no intervals and is evaluated with set 0; and the third
\* component's only counted interval ends at 400 K, so its heat capacity is
\* extrapolated (500 K is not below 1.25 * 400 K: the estimate is taken at
\* 400 K * 17 / 16).
C14_Witness ==
    /\ calculated.stage = "returned"
    /\ calculated.T = Num(500)
    /\ DOMAIN calculated.results = {"ETHYLENE", "NITROGEN"}
    /\ Containing(Num(500), componentLibrary.ETHYLENE.properties.VaporHeatCapacity) = {0, 1}
    /\ calculated.results.ETHYLENE.VaporHeatCapacity
         = [value |-> [k |-> "correlation", fn |-> "calcPolynomial", at |-> Num(500), index |-> 0],
            interpolated |-> FALSE]
    /\ calculated.results.ETHYLENE.LiquidViscosity.value.index = 0
    /\ componentLibrary.NITROGEN.properties.VaporHeatCapacity.correlation_type = "Type1"
    /\ calculated.results.NITROGEN.VaporHeatCapacity
         = [value |-> [k |-> "extrapolation", type |-> "Type1", at |-> Num(425), ref |-> Num(400)],
            interpolated |-> TRUE]
\* The bracket of site j's dead-polymer moments: transfer to monomer,
\* transfer to hydrogen and termination.
DeadBracket1(i, ps) == (i.M1 ++ i.M2) ** ps.pseudo_kt_1 ++ ps.pseudo_ktH_1 ** i.H2 ++ ps.pseudo_kte_1
DeadBracket2(i, ps) == (i.M1 ++ i.M2) ** ps.pseudo_kt_2 ++ ps.pseudo_ktH_2 ** i.H2 ++ ps.pseudo_kte_2

\* C21: for every call at a valid temperature, each site j and each order
\* k in {0, 1, 2}, rateDeadPolymerMomentk_xk_j equals
\* Yk_j*((M1 + M2)*pseudo_kt_j + pseudo_ktH_j*H2 + pseudo_kte_j)*V, the
\* bracket being the same for the three orders of a site; the rate is 0
\* whenever the living moment Yk_j is 0.
C21_DeadMoments ==
    (Returned /\ ValidTemperature(Args.temperature)) =>
        LET i  == Locals
            ps == PseudoConstants(KineticConstants(i.T), Fractions(i))
            b1 == DeadBracket1(i, ps)
            b2 == DeadBracket2(i, ps)
        IN  /\ Out.rateDeadPolymerMoment0_x0_1 = i.Y0_1 ** b1 ** i.V
            /\ Out.rateDeadPolymerMoment1_x1_1 = i.Y1_1 ** b1 ** i.V
            /\ Out.rateDeadPolymerMoment2_x2_1 = i.Y2_1 ** b1 ** i.V
            /\ Out.rateDeadPolymerMoment0_x0_2 = i.Y0_2 ** b2 ** i.V
            /\ Out.rateDeadPolymerMoment1_x1_2 = i.Y1_2 ** b2 ** i.V
            /\ Out.rateDeadPolymerMoment2_x2_2 = i.Y2_2 ** b2 ** i.V
            /\ i.Y0_1 = Zero => Out.rateDeadPolymerMoment0_x0_1 = Zero
            /\ i.Y1_1 = Zero => Out.rateDeadPolymerMoment1_x1_1 = Zero
            /\ i.Y2_1 = Zero => Out.rateDeadPolymerMoment2_x2_1 = Zero
            /\ i.Y0_2 = Zero => Out.rateDeadPolymerMoment0_x0_2 = Zero
            /\ i.Y1_2 = Zero => Out.rateDeadPolymerMoment1_x1_2 = Zero
            /\ i.Y2_2 = Zero => Out.rateDeadPolymerMoment2_x2_2 = Zero

\* A call at 353.15 K in 2 L with ethylene, hydrogen and living moments
\* 1, 2, 4 on site 1: the three dead-moment rates of the site are positive
\* and in the ratio 1 : 2 : 4.
C21_Witness ==
    /\ Returned
    /\ Args.temperature = Rat(7063, 20)
    /\ Args.volume = Num(2) /\ Args.hydrogen = One /\ Args.ethylene = One
    /\ Args.livingPolymerMoment0_y0_1 = One
    /\ Args.livingPolymerMoment1_y1_1 = Num(2)
    /\ Args.livingPolymerMoment2_y2_1 = Num(4)
    /\ Sign(Out.rateDeadPolymerMoment0_x0_1) > 0
    /\ Out.rateDeadPolymerMoment1_x1_1 = Num(2) ** Out.rateDeadPolymerMoment0_x0_1
    /\ Out.rateDeadPolymerMoment2_x2_1 = Num(4) ** Out.rateDeadPolymerMoment0_x0_1
\* C22: for every call at a valid temperature and each site j the
\* conversion terms (kp12_j, kt12_j, kp21_j, kt21_j) enter RN1_j and RN2_j
\* with opposite signs, so that RN1_j + RN2_j = N0_j*(ki1_j*M1 + ki2_j*M2)
\* - N1_j*(ktH1_j*H2 + kte1_j) - N2_j*(ktH2_j*H2 + kte2_j); the returned
\* rateLivingPolymerEnd_zk_j is RNk_j*V.
C22_EndGroupsConserved ==
    (Returned /\ ValidTemperature(Args.temperature)) =>
        LET i == Locals
            k == KineticConstants(i.T)
        IN  /\ Out.rateLivingPolymerEnd_z1_1 ++ Out.rateLivingPolymerEnd_z2_1
                 = (i.N0_1 ** (k.ki1_1 ** i.M1 ++ k.ki2_1 ** i.M2)
                      -- i.N1_1 ** (k.ktH1_1 ** i.H2 ++ k.kte1_1)
                      -- i.N2_1 ** (k.ktH2_1 ** i.H2 ++ k.kte2_1)) ** i.V
            /\ Out.rateLivingPolymerEnd_z1_2 ++ Out.rateLivingPolymerEnd_z2_2
                 = (i.N0_2 ** (k.ki1_2 ** i.M1 ++ k.ki2_2 ** i.M2)
                      -- i.N1_2 ** (k.ktH1_2 ** i.H2 ++ k.kte1_2)
                      -- i.N2_2 ** (k.ktH2_2 ** i.H2 ++ k.kte2_2)) ** i.V

\* A call at 353.15 K with ethylene and chains of site 2 ending in hexene:
\* the conversion flux kp21_2*N2_2*M1 is positive, so the rate of the
\* ethylene-ended chains exceeds what initiation and the losses alone give.
C22_Witness ==
    /\ Returned
    /\ Args.temperature = Rat(7063, 20)
    /\ Args.volume = One /\ Args.ethylene = One /\ Args.hexene = One
    /\ Args.livingPolymerEnd_z1_2 = Zero
    /\ Args.livingPolymerEnd_z2_2 = One
    /\ LET i == Locals
           k == KineticConstants(i.T)
       IN  /\ Sign(k.kp21_2 ** i.N2_2 ** i.M1) > 0
           /\ DLt(k.ki1_2 ** i.M1 ** i.N0_2, Out.rateLivingPolymerEnd_z1_2)
\* C23: for every call at a valid temperature with M1 + M2 > 0, the summed
\* rate of the living and dead first moments of both sites equals the
\* monomer consumption -(rateEthylene + rateHexene) times the factor
\* (M1 + M2) / (M1 + M2 + epsilon) that the guarded monomer fractions
\* introduce.
C23_MonomerUnitsConserved ==
    (Returned /\ ValidTemperature(Args.temperature)
              /\ Sign(Locals.M1 ++ Locals.M2) > 0) =>
        LET Mt == Locals.M1 ++ Locals.M2
        IN  (Out.rateLivingPolymerMoment1_y1_1 ++ Out.rateDeadPolymerMoment1_x1_1)
              ++ (Out.rateLivingPolymerMoment1_y1_2 ++ Out.rateDeadPolymerMoment1_x1_2)
              = DNeg(Out.rateEthylene ++ Out.rateHexene) ** (Mt // (Mt ++ Eps))

\* A call at 353.15 K in 2 L with both monomers, vacant sites and living
\* chains on both sites: monomer is consumed by initiation, propagation and
\* transfer, and the first moments grow.
C23_Witness ==
    /\ Returned
    /\ Args.temperature = Rat(7063, 20)
    /\ Args.volume = Num(2) /\ Args.ethylene = Num(2) /\ Args.hexene = One
    /\ Args.activeSites_z0_1 = Num(2) /\ Args.livingPolymerMoment0_y0_2 = Num(2)
    /\ Sign(Out.rateEthylene) < 0 /\ Sign(Out.rateHexene) < 0
    /\ LET i == Locals
           k == KineticConstants(i.T)
       IN  DLt((i.N0_1 ** i.M1 ** k.ki1_1 ++ i.N0_2 ** i.M1 ** k.ki1_2) ** i.V,
               DNeg(Out.rateEthylene))
    /\ Sign((Out.rateLivingPolymerMoment1_y1_1 ++ Out.rateDeadPolymerMoment1_x1_1)
              ++ (Out.rateLivingPolymerMoment1_y1_2 ++ Out.rateDeadPolymerMoment1_x1_2)) > 0
\* x / (x + e), the factor an epsilon guard leaves on a quantity x.
Guard(x, e) == IF IsZero(x) THEN Zero ELSE x // (x ++ e)

\* The chain-end balance of a site with the epsilon of the guards as a
\* parameter e: initiation, less the transfer-to-hydrogen and termination
\* losses of the chains ending in either monomer.
ChainEnds(N0, N1, N2, ki1, ki2, ktH1, kte1, ktH2, kte2, M1, M2, H2, e) ==
    N0 ** (ki1 ** M1 ++ ki2 ** M2) ** Guard(M1 ++ M2, e)
      -- (N1 ** (ktH1 ** H2 ++ kte1) ++ (N2 ++ e) ** (ktH2 ** H2 ++ kte2)) ** Guard(N1 ++ N2, e)

\* C24: for every call at a valid temperature and each site j with
\* Y0_j = N1_j + N2_j, the zeroth-moment rate RY0_j and the sum of the
\* end-group rates RN1_j + RN2_j are the same chain-end balance, the first
\* with the epsilon of the guards and the second with 0 in its place: they
\* differ by the epsilon terms only.
C24_ChainCount ==
    (Returned /\ ValidTemperature(Args.temperature)) =>
        LET i == Locals
            k == KineticConstants(i.T)
        IN  /\ i.Y0_1 = i.N1_1 ++ i.N2_1 =>
                 /\ Out.rateLivingPolymerMoment0_y0_1
                      = ChainEnds(i.N0_1, i.N1_1, i.N2_1, k.ki1_1, k.ki2_1, k.ktH1_1, k.kte1_1,
                                  k.ktH2_1, k.kte2_1, i.M1, i.M2, i.H2, Eps) ** i.V
                 /\ Out.rateLivingPolymerEnd_z1_1 ++ Out.rateLivingPolymerEnd_z2_1
                      = ChainEnds(i.N0_1, i.N1_1, i.N2_1, k.ki1_1, k.ki2_1, k.ktH1_1, k.kte1_1,
                                  k.ktH2_1, k.kte2_1, i.M1, i.M2, i.H2, Zero) ** i.V
            /\ i.Y0_2 = i.N1_2 ++ i.N2_2 =>
                 /\ Out.rateLivingPolymerMoment0_y0_2
                      = ChainEnds(i.N0_2, i.N1_2, i.N2_2, k.ki1_2, k.ki2_2, k.ktH1_2, k.kte1_2,
                                  k.ktH2_2, k.kte2_2, i.M1, i.M2, i.H2, Eps) ** i.V
                 /\ Out.rateLivingPolymerEnd_z1_2 ++ Out.rateLivingPolymerEnd_z2_2
                      = ChainEnds(i.N0_2, i.N1_2, i.N2_2, k.ki1_2, k.ki2_2, k.ktH1_2, k.kte1_2,
                                  k.ktH2_2, k.kte2_2, i.M1, i.M2, i.H2, Zero) ** i.V

\* A call at 353.15 K with both monomers and hydrogen where site 2 has two
\* vacant sites and one living chain, ending in hexene (Y0_2 = N1_2 + N2_2
\* = 1): initiation and the losses by termination are at work.
C24_Witness ==
    /\ Returned
    /\ Args.temperature = Rat(7063, 20)
    /\ Args.volume = One /\ Args.hydrogen = One
    /\ Args.ethylene = One /\ Args.hexene = One
    /\ Args.activeSites_z0_2 = Num(2)
    /\ Args.livingPolymerEnd_z1_2 = Zero /\ Args.livingPolymerEnd_z2_2 = One
    /\ Args.livingPolymerMoment0_y0_2 = One
    /\ Sign(KineticConstants(Locals.T).kte2_2) > 0
    /\ Sign(KineticConstants(Locals.T).ki1_2) > 0
    /\ Out.rateLivingPolymerMoment0_y0_2
         # Out.rateLivingPolymerEnd_z1_2 ++ Out.rateLivingPolymerEnd_z2_2
\* C25: for every call at a valid temperature, rateCatalyst + rateCr6
\* + rateActiveSites_z0_1 + rateActiveSites_z0_2 equals minus the total
\* initiation flux, -V*(N0_1*(ki1_1*M1 + ki2_1*M2)
\* + N0_2*(ki1_2*M1 + ki2_2*M2)); without monomer the four rates sum to 0.
C25_SitesConserved ==
    (Returned /\ ValidTemperature(Args.temperature)) =>
        LET i   == Locals
            k   == KineticConstants(i.T)
            sum == (Out.rateCatalyst ++ Out.rateCr6)
                     ++ (Out.rateActiveSites_z0_1 ++ Out.rateActiveSites_z0_2)
        IN  /\ sum = DNeg(i.V ** (i.N0_1 ** (k.ki1_1 ** i.M1 ++ k.ki2_1 ** i.M2)
                                    ++ i.N0_2 ** (k.ki1_2 ** i.M1 ++ k.ki2_2 ** i.M2)))
            /\ (i.M1 = Zero /\ i.M2 = Zero) => sum = Zero

\* A call at 353.15 K in 2 L with catalyst, cocatalyst, cr6, ethylene and
\* vacant sites: catalyst is consumed, cr6 is produced, initiation is at
\* work, and the four site rates sum to a negative number.
C25_Witness ==
    /\ Returned
    /\ Args.temperature = Rat(7063, 20)
    /\ Args.volume = Num(2) /\ Args.hydrogen = Zero /\ Args.ethylene = One
    /\ Args.catalyst = One /\ Args.cr6 = One /\ Args.cocatalyst = One
    /\ Args.activeSites_z0_1 = One
    /\ Sign(Out.rateCatalyst) < 0
    /\ Sign(Out.rateCr6) > 0
    /\ Sign(Out.rateActiveSites_z0_2) > 0
    /\ Sign((Out.rateCatalyst ++ Out.rateCr6)
              ++ (Out.rateActiveSites_z0_1 ++ Out.rateActiveSites_z0_2)) < 0

\* Every concentration and the volume of an input record is finite and not
\* negative, and its temperature is greater than 0.
NonNegativeInputs(inp) ==
    /\ DLt(Zero, inp.temperature)
    /\ \A f \in ConcentrationFields \cup {"volume"} :
           IsFinite(inp[f]) /\ Sign(inp[f]) >= 0

DeadMomentOutputs ==
    { "rateDeadPolymerMoment0_x0_1", "rateDeadPolymerMoment0_x0_2",
      "rateDeadPolymerMoment1_x1_1", "rateDeadPolymerMoment1_x1_2",
      "rateDeadPolymerMoment2_x2_1", "rateDeadPolymerMoment2_x2_2" }

\* C26: for every input with finite concentrations and volume that are not
\* negative and a temperature greater than 0, the rates of ethylene, hexene,
\* hydrogen, catalyst and cocatalyst are at most 0, and the polymer
\* production rate and the six dead-polymer moment rates are at least 0.
C26_Signs ==
    (Returned /\ NonNegativeInputs(Args)) =>
        /\ \A f \in {"rateEthylene", "rateHexene", "rateHydrogen",
                     "rateCatalyst", "rateCocatalyst"} : DLe(Out[f], Zero)
        /\ DLe(Zero, Out.polymerProductionRate)
        /\ \A f \in DeadMomentOutputs : DLe(Zero, Out[f])

\* C26: a call with both monomers, hydrogen, catalyst, cocatalyst and living
\* chains present has returned with every consumption strictly negative and
\* polymer and dead chains strictly produced.
C26_Witness ==
    /\ Returned /\ NonNegativeInputs(Args)
    /\ Args.temperature = Rat(7063, 20) /\ Args.volume = Num(2)
    /\ Sign(Out.rateEthylene) < 0 /\ Sign(Out.rateHexene) < 0
    /\ Sign(Out.rateHydrogen) < 0 /\ Sign(Out.rateCatalyst) < 0
    /\ Sign(Out.rateCocatalyst) < 0 /\ Sign(Out.polymerProductionRate) > 0
    /\ Sign(Out.rateDeadPolymerMoment0_x0_1) > 0
    /\ Sign(Out.rateDeadPolymerMoment2_x2_2) > 0

UntrackedOutputs ==
    { "rateNitrogen", "rateEthane", "ratePropane", "rateButene",
      "rateIsobutane", "rateHexane", "rateWater", "rateCarbonMonoxide",
      "rateMethane", "rateEthylenesegment", "rateHexenesegment" }

\* C27: whatever the input, each of the eleven outputs of the species that
\* are not tracked is 0, also when the ethane side reaction consumes
\* hydrogen, and ratePolymerMass holds the value of polymerProductionRate.
C27_UntrackedZero ==
    Returned =>
        /\ \A f \in UntrackedOutputs : Out[f] = Zero
        /\ Out.ratePolymerMass = Out.polymerProductionRate

\* C27: a call in reactor 2 with hydrogen present has returned; the ethane
\* side reaction consumed hydrogen, polymer is produced, and no ethane is
\* reported.
C27_Witness ==
    /\ Returned /\ Args.reactorFlag = 2 /\ Args.hydrogen = One
    /\ Args.temperature = Rat(7063, 20)
    /\ Sign(KineticConstants(Locals.T).kethane ** Locals.H2 ** Eth(Args.reactorFlag)) > 0
    /\ Sign(Out.rateHydrogen) < 0
    /\ Sign(Out.polymerProductionRate) > 0
    /\ Out.rateEthane = Zero

\* C28: in a session of the page outputs is null until the first run; the
\* displayed value changes only in a step of runCalculation, which runs when
\* the component mounts and afterwards on a click only; moving a slider
\* leaves outputs and every returned record as they were; a run that throws
\* leaves outputs as it was; so after any step outputs is the record
\* calculateReactionRates returns for the inputs of the latest run.
C28_OutputsOnlyByRun ==
    /\ [](calls = 0 => outputs = Null /\ ~mounted)
    /\ [](Returned => outputs \in DOMAIN heap /\ Out = calculateReactionRates(Args))
    /\ [][ /\ (outputs' # outputs \/ heap' # heap \/ lastRun' # lastRun) => calls' = calls + 1
           /\ calls' # calls =>
                /\ IF mounted THEN Click ELSE onMount
                /\ lastRun'.args = inputs
                /\ lastRun'.status = "returned" =>
                     heap'[outputs'] = calculateReactionRates(inputs)
                /\ lastRun'.status = "threw" => outputs' = outputs /\ heap' = heap
           /\ mounted' # mounted => ~mounted /\ calls = 0 /\ calls' = 1
           /\ inputs' # inputs => outputs' = outputs /\ heap' = heap ]_vars

\* C28: after a run a slider has been moved and no run has followed: the
\* displayed record is the one of the inputs of the latest run, and not the
\* one of the inputs now shown.
C28_Witness ==
    /\ mounted /\ Returned /\ calls >= 2 /\ moves >= 2
    /\ inputs # Args
    /\ Out = calculateReactionRates(Args)
    /\ Out # calculateReactionRates(inputs)

\* C29: a call of calculateAllProperties leaves componentLibrary as it was,
\* so after any sequence of calls every component of the library has an
\* empty calculated_properties; the Map returned has one entry for each
\* requested name the library holds and none for any other name, and each
\* entry is an object the call created, no two entries the same object,
\* with the constants of the library's component and a calculated_properties
\* holding the calculated value of each property the component defines.
C29_LibraryUntouched ==
    /\ [][componentLibrary' = componentLibrary]_vars
    /\ [](\A name \in DOMAIN componentLibrary :
             componentLibrary[name].calculated_properties = EmptyMap)
    /\ [](calculated.stage = "returned" =>
            LET names == {calculated.componentNames[n] : n \in DOMAIN calculated.componentNames}
            IN  /\ DOMAIN calculated.entries = names \cap DOMAIN componentLibrary
                /\ \A name \in DOMAIN calculated.entries :
                     LET ref == calculated.entries[name]
                     IN  /\ ref.in = "clones" /\ ref.at \in DOMAIN calculated.objects
                         /\ \A other \in DOMAIN calculated.entries \ {name} :
                                calculated.entries[other] # ref
                         /\ LET clone == calculated.objects[ref.at]
                                component == componentLibrary[name]
                            IN  /\ clone.critical_temperature = component.critical_temperature
                                /\ clone.properties = component.properties
                                /\ DOMAIN clone.calculated_properties = DOMAIN component.properties
                                /\ \A propName \in DOMAIN component.properties :
                                       clone.calculated_properties[propName]
                                         = calculated.results[name][propName].value)

\* C29: the second call, asked for a name the library does not hold and for
\* 1-HEXENE, has returned one entry, a new object with one calculated value,
\* and the library's components have no calculated value.
C29_Witness ==
    /\ calculated.stage = "returned" /\ calculated.calls = 2
    /\ calculated.componentNames = <<"ARGON", "HEXENE">>
    /\ calculated.T = Num(350)
    /\ DOMAIN calculated.entries = {"HEXENE"}
    /\ calculated.entries.HEXENE = [in |-> "clones", at |-> 1]
    /\ DOMAIN calculated.objects[1].calculated_properties = {"VaporHeatCapacity"}
    /\ componentLibrary.HEXENE.calculated_properties = EmptyMap
    /\ componentLibrary.HEXENE = hexene

\* C30: a call of convertUnit with fromUnit different from toUnit throws,
\* and returns no value, when the unit type has no factor table (Length,
\* Volume, Viscosity) or when one of the units is not a unit of the type (of
\* its factor table, or C, K, F for Temperature); a call with fromUnit equal
\* to toUnit returns the value as it is, whatever the unit and the unit type.
C30_ThrowsOnUnknownUnits ==
    conversion.stage # "none" =>
        /\ (/\ conversion.fromUnit # conversion.toUnit
            /\ \/ conversion.unitType \in {"Length", "Volume", "Viscosity"}
               \/ conversion.fromUnit \notin UnitsOf(conversion.unitType)
               \/ conversion.toUnit \notin UnitsOf(conversion.unitType))
             => conversion.out.threw
        /\ conversion.fromUnit = conversion.toUnit
             => ~conversion.out.threw /\ conversion.out.value = conversion.value

\* C30: a conversion of 1 bar to psi as a Length has thrown.
C30_Witness ==
    /\ conversion.stage = "converted"
    /\ conversion.unitType = "Length"
    /\ conversion.fromUnit = "bar" /\ conversion.toUnit = "psi"
    /\ conversion.value = One
    /\ conversion.out.threw
====
